---- MODULE Spec2Model ----
(***************************************************************************)
(* Model of the progressive rendering engine of mandelbrot-sfml            *)
(* (MandelbrotRenderer.cpp / View.cpp, the OpenMP + sf::Thread version).   *)
(*                                                                         *)
(* Three threads are modelled:                                             *)
(*   input   : run() / handleEvents() and the View mutators it calls       *)
(*   draw    : MandelbrotRenderer::draw(), the drawing loop                *)
(*   render  : MandelbrotRenderer::render(), split over NumUnits workers   *)
(*             of the "omp parallel for" over the rows                     *)
(* Every read or write of a member shared between threads is one step.     *)
(* Plain (non atomic) members are modelled sequentially consistent.        *)
(*                                                                         *)
(* sf::Thread is modelled by its behaviour: wait() blocks until the        *)
(* thread function has returned, launch() waits for a previous run of the  *)
(* same sf::Thread object and then starts the entry point.                 *)
(***************************************************************************)
EXTENDS Integers, Sequences, FiniteSets, TLC

(***************************************************************************)
(* Bounds of the model                                                     *)
(***************************************************************************)
Width == 1
Height == 2
NumUnits == 2
MaxEvents == 1
MaxCentre == 1
MaxZoom == 1
MaxCalls == 3
MaxPixel == 3
DeepZoom == 12
PixelDivision == 2

VARIABLES
    m_renderingView,    \* View: centre, zoom (with scale), rect, dirty, zoomBoxIsShown
    m_completedView,    \* View of the last promotion: centre, zoom, rect
    m_renderingPixels,  \* sequence of pixels, <<>> when not allocated
    m_completedPixels,  \* sequence of pixels, <<>> when not allocated
    m_renderingState,   \* "Rendering" | "Completed" | "Displayed"
    m_cancelling,
    m_resizing,
    windowOpen,         \* m_window.isOpen()
    inputTodo,          \* input thread: steps left in the current handler
    events,             \* number of input events still to be polled
    drawPc,             \* drawing thread: position in draw()
    running,            \* m_renderingThread: the thread function has not returned
    units,              \* render(): per worker unit, position in the row loop
    launchView,         \* ghost: <<centre, zoom>> of m_renderingView at the last launch
    passCut,            \* ghost: a unit of the last pass took the break on m_cancelling
    promotions,         \* ghost: number of promotions of the last pass
    completedCut,       \* ghost: m_completedPixels holds pixels written by a cut pass
    tickLog,            \* ghost: operations done by the dirty branch of the current tick
    lastDetailedFull,   \* ghost: the last detailedDraw read a fully written frame of an ended pass
    layers,             \* ghost: what the current tick has drawn after its dirty branch, in order
    uaf,                \* ghost: a render pass wrote through a freed m_renderingPixels
    theView,            \* a View called on its own: the values of its fields
    lastCall,           \* the last call on theView: member, View before it, value returned
    calls,              \* number of calls made on theView
    pool                \* the renderer with a pool of tile threads: its state

vars == << m_renderingView, m_completedView, m_renderingPixels, m_completedPixels,
           m_renderingState, m_cancelling, m_resizing, windowOpen, inputTodo, events,
           drawPc, running, units, launchView, passCut, promotions, completedCut, tickLog,
           lastDetailedFull, layers, uaf, theView, lastCall, calls, pool >>

viewVars == << theView, lastCall, calls, pool >>
inputVars == << inputTodo, events >>
renderVars == << running, units, launchView, passCut, uaf >>
ghostDraw == << promotions, completedCut, tickLog, lastDetailedFull, layers >>

(***************************************************************************)
(* Pixels.  A pixel of a buffer is a record:                               *)
(*   a : alpha byte (0 = cleared by the controller, 255 = written by       *)
(*       render(), -1 = never initialised after new[])                     *)
(*   v : <<centre, zoom>> of m_renderingView read by complexAtPixel for    *)
(*       this pixel (m_centre, m_scale)                                    *)
(*   m : zoom of m_renderingView read by mandelbrot() for MAX_ITERATIONS   *)
(* The colour bytes are a function of v, m and the pixel position.         *)
(***************************************************************************)
NoView == << -1, -1 >>
ZeroPixel == [a |-> 0, v |-> NoView, m |-> -1]
UninitPixel == [a |-> -1, v |-> NoView, m |-> -1]
NPixels == Width * Height
PixelIndex(x, y) == y * Width + x + 1

\* new sf::Uint8[m_bufferSizeBytes]: the content is not initialised
NewBuffer == [i \in 1..NPixels |-> UninitPixel]

Units == 0..(NumUnits - 1)
Centres == 0..MaxCentre
Zooms == 0..MaxZoom

\* static schedule of "omp parallel for": contiguous chunks of rows
ChunkSize == (Height + NumUnits - 1) \div NumUnits
FirstRow(u) == u * ChunkSize
EndRow(u) == IF (u + 1) * ChunkSize < Height THEN (u + 1) * ChunkSize ELSE Height

IdleUnit == [ph |-> "done", y |-> 0, x |-> 0, z |-> NoView]

ViewKey(view) == << view.centre, view.zoom >>

\* View::View(-0.5, 0.0, 1.0, width, height): moveTo, zoomTo; m_dirty = true.
\* Centre 0 stands for the centre (-0.5, 0) and zoom 0 for the zoom 1 that the
\* constructor and the R key set; the other centres and zooms are the values
\* the handlers navigate to.
InitialView == [centre |-> 0, zoom |-> 0, rect |-> << 0, 0 >>,
                dirty |-> TRUE, zoomBoxIsShown |-> FALSE]

\* View(): the default constructed m_completedView, centre (0, 0) and zoom 1;
\* its centre is none of the centres the model navigates to
DefaultView == [centre |-> -1, zoom |-> 0, rect |-> << -1, 0 >>]

\* the fields of a View that roughDraw reads from m_completedView
Snapshot(view) == [centre |-> view.centre, zoom |-> view.zoom, rect |-> view.rect]

(***************************************************************************)
(* The View class on its own (View.cpp), with the values of its fields.    *)
(*                                                                         *)
(* Real is double.  A finite double is a rational number; the model keeps  *)
(* a Real as an exact fraction << numerator, denominator >> in lowest      *)
(* terms and leaves rounding out, so every identity of the real numbers    *)
(* that the code relies on holds in the model.  m_zoom is kept as the      *)
(* exact value half / 2 + log2(odd), [half |-> h, odd |-> << m, n >>] with *)
(* m / n a fraction of odd positive integers; odd = 0 stands for           *)
(* -infinity (log2 of 0) and odd = -1 for NaN (log2 of a negative number). *)
(***************************************************************************)
Abs(n) == IF n < 0 THEN -n ELSE n

RECURSIVE Gcd(_, _)
Gcd(a, b) == IF b = 0 THEN a ELSE Gcd(b, a % b)

\* the fraction n / d in lowest terms, denominator positive
Frac(n, d) ==
    LET g == Gcd(Abs(n), Abs(d))
        s == IF d < 0 THEN -1 ELSE 1
    IN  << (s * n) \div g, (s * d) \div g >>

Real(n) == << n, 1 >>
Add(p, q) == Frac(p[1] * q[2] + q[1] * p[2], p[2] * q[2])
Sub(p, q) == Frac(p[1] * q[2] - q[1] * p[2], p[2] * q[2])
Mul(p, q) == Frac(p[1] * q[1], p[2] * q[2])
Div(p, q) == Frac(p[1] * q[2], p[2] * q[1])
Less(p, q) == p[1] * q[2] < q[1] * p[2]
Positive(p) == p[1] > 0
FAbs(p) == << Abs(p[1]), p[2] >>
Half == << 1, 2 >>

\* static_cast<int>(p), static_cast<long>(p): truncation towards zero
Truncate(p) == IF p[1] >= 0 THEN p[1] \div p[2] ELSE -((-p[1]) \div p[2])

\* integer division of C++ (operator/ of sf::Vector2<int>): towards zero
IntDiv(a, b) == IF a >= 0 THEN a \div b ELSE -((-a) \div b)

\* pow(2, k) for an integer k
Pow2(k) == IF k >= 0 THEN << 2 ^ k, 1 >> ELSE << 1, 2 ^ (-k) >>

\* the largest integer e with 2^e <= p / q, for integers p, q >= 1
RECURSIVE FloorLog2(_, _)
FloorLog2(p, q) ==
    IF p >= 2 * q THEN 1 + FloorLog2(p, 2 * q)
    ELSE IF p < q THEN FloorLog2(2 * p, q) - 1
    ELSE 0

\* the number of times 2 divides n, for an integer n >= 1
RECURSIVE TwoAdic(_)
TwoAdic(n) == IF n % 2 = 1 THEN 0 ELSE 1 + TwoAdic(n \div 2)

Zoom(k) == [half |-> 2 * k, odd |-> << 1, 1 >>]
NegInfinity == [half |-> 0, odd |-> << 0, 1 >>]
NaN == [half |-> 0, odd |-> << -1, 1 >>]
Finite(z) == z.odd[1] > 0

\* log2(s): s = (m / n) * 2^k with m and n odd gives k + log2(m / n)
Log2(s) ==
    IF s[1] = 0 THEN NegInfinity
    ELSE IF s[1] < 0 THEN NaN
    ELSE LET a == TwoAdic(s[1])
             b == TwoAdic(s[2])
         IN  [half |-> 2 * (a - b), odd |-> << s[1] \div (2 ^ a), s[2] \div (2 ^ b) >>]

\* m_zoom += dz, for dz = dhalf / 2
ZoomPlus(z, dhalf) == IF Finite(z) THEN [z EXCEPT !.half = z.half + dhalf] ELSE z

\* z is an integer
WholeZoom(z) == Finite(z) /\ z.odd = << 1, 1 >> /\ z.half % 2 = 0

\* the largest integer <= z: floor(z) = floor(floor(2 z) / 2) and
\* floor(2 z) = half + floor(log2(odd^2))
ZoomFloor(z) == (z.half + FloorLog2(z.odd[1] * z.odd[1], z.odd[2] * z.odd[2])) \div 2

\* static_cast<long>(z) for a finite z: truncation towards zero
ZoomTruncate(z) ==
    IF ZoomFloor(z) >= 0 \/ WholeZoom(z) THEN ZoomFloor(z) ELSE ZoomFloor(z) + 1

\* 2^z is a fraction only when 2 z is even; then it is odd * 2^(half / 2)
HasPow(z) == Finite(z) /\ z.half % 2 = 0
PowOf(z) == Mul(z.odd, Pow2(z.half \div 2))

\* s = 2^z in the real numbers (2^(-infinity) = 0; NaN equals nothing)
IsPowOf(s, z) ==
    \/ HasPow(z) /\ s = PowOf(z)
    \/ z = NegInfinity /\ s = Real(0)

\* View::updateViewport
View_updateViewport(v) ==
    LET scaleVector == << Mul(v.m_scale, v.m_aspectRatio), v.m_scale >>
    IN  [v EXCEPT !.m_rect = [left |-> Sub(v.m_centre[1], scaleVector[1]),
                              top |-> Sub(v.m_centre[2], scaleVector[2]),
                              width |-> scaleVector[1],
                              height |-> scaleVector[2]]]

\* void View::isDirty(bool d)
View_isDirty(v, d) == [v EXCEPT !.m_dirty = d]

\* a moveTo that would not mark the View
View_moveToUnmarked(v, x, y) == View_updateViewport([v EXCEPT !.m_centre = << x, y >>])

\* View::moveTo
View_moveTo(v, x, y) ==
    View_updateViewport(View_isDirty([v EXCEPT !.m_centre = << x, y >>], TRUE))

\* a moveBy that would take its argument as a displacement in the plane
View_moveByUnscaled(v, dx, dy) ==
    View_updateViewport(View_isDirty(
        [v EXCEPT !.m_centre = << Add(v.m_centre[1], dx), Add(v.m_centre[2], dy) >>], TRUE))

\* View::moveBy
View_moveBy(v, dx, dy) ==
    View_updateViewport(View_isDirty(
        [v EXCEPT !.m_centre = << Add(v.m_centre[1], Mul(dx, v.m_scale)),
                                  Add(v.m_centre[2], Mul(dy, v.m_scale)) >>], TRUE))

\* View::zoomTo, for a zoom whose power of two is a fraction
View_zoomTo(v, z) ==
    View_updateViewport(View_isDirty([v EXCEPT !.m_zoom = z, !.m_scale = PowOf(z)], TRUE))

\* View::zoomBy: m_zoom += dz; m_scale = 1 / pow(TWO, static_cast<long>(-m_zoom))
View_zoomBy(v, dhalf) ==
    LET z == ZoomPlus(v.m_zoom, dhalf)
    IN  View_updateViewport(View_isDirty(
            [v EXCEPT !.m_zoom = z,
                      !.m_scale = Div(Real(1), Pow2(-ZoomTruncate(z)))], TRUE))

\* View::setScale
View_setScale(v, s) ==
    View_updateViewport(View_isDirty([v EXCEPT !.m_scale = s, !.m_zoom = Log2(s)], TRUE))

\* View::setViewport
View_setViewport(v, r) ==
    View_isDirty([v EXCEPT !.m_rect = r,
                           !.m_scale = Mul(Half, r.height),
                           !.m_zoom = Log2(Mul(Half, r.height)),
                           !.m_centre = << Add(r.left, Mul(Half, r.width)),
                                           Add(r.top, Mul(Half, r.height)) >>], TRUE)

\* a resizeScreen that would keep m_scale
View_resizeScreenSameScale(v, screenWidth, screenHeight) ==
    View_updateViewport(View_isDirty(
        [v EXCEPT !.m_screenSize = << screenWidth, screenHeight >>,
                  !.m_aspectRatio = Frac(screenWidth, screenHeight)], TRUE))

\* View::resizeScreen
View_resizeScreen(v, screenWidth, screenHeight) ==
    View_updateViewport(View_isDirty(
        [v EXCEPT !.m_scale = Mul(v.m_scale, Frac(screenHeight, v.m_screenSize[2])),
                  !.m_screenSize = << screenWidth, screenHeight >>,
                  !.m_aspectRatio = Frac(screenWidth, screenHeight)], TRUE))

\* a complexAtPixel that would scale each axis by its own size
View_complexAtPixelPerAxis(v, x, y) ==
    << Add(v.m_centre[1], Mul(Div(v.m_scale, Real(v.m_screenSize[1])),
                              Real(2 * x - v.m_screenSize[1]))),
       Add(v.m_centre[2], Mul(Div(v.m_scale, Real(v.m_screenSize[2])),
                              Real(2 * y - v.m_screenSize[2]))) >>

\* View::complexAtPixel
View_complexAtPixel(v, x, y) ==
    LET perPixel == Div(v.m_scale, Real(v.m_screenSize[2]))
    IN  << Add(v.m_centre[1], Mul(perPixel, Real(2 * x - v.m_screenSize[1]))),
           Add(v.m_centre[2], Mul(perPixel, Real(2 * y - v.m_screenSize[2]))) >>

\* View::pixelAtComplex, for m_scale # 0
View_pixelAtComplex(v, x, y) ==
    LET perUnit == Div(Real(v.m_screenSize[2]), v.m_scale)
    IN  << Truncate(Mul(Half, Add(Mul(Sub(x, v.m_centre[1]), perUnit),
                                  Real(v.m_screenSize[1])))),
           Truncate(Mul(Half, Add(Mul(Sub(y, v.m_centre[2]), perUnit),
                                  Real(v.m_screenSize[2])))) >>

\* static_cast<int> of a value that is not finite is undefined: the values
\* the conversion instructions of the usual targets give (INT_MIN, 0, INT_MAX)
UndefinedInt == { -2147483647 - 1, 0, 2147483647 }

\* View::pixelAtComplex for any m_scale: with m_scale = 0 the factor
\* m_screenSize.y / m_scale is infinite and the products are infinite or NaN
View_pixelAtComplexResults(v, x, y) ==
    IF v.m_scale = Real(0) THEN UndefinedInt \X UndefinedInt
    ELSE { View_pixelAtComplex(v, x, y) }

\* the pixels of the screen
ScreenPixels(v) == (0..(v.m_screenSize[1] - 1)) \X (0..(v.m_screenSize[2] - 1))

\* View::zoomBoxBegin
\* a zoomBoxBegin that would mark the View
View_zoomBoxBeginMarking(v, x, y) ==
    [v EXCEPT !.m_zoomBoxIsShown = TRUE, !.m_zoomBoxStartCorner = << x, y >>,
              !.m_dirty = TRUE]

View_zoomBoxBegin(v, x, y) ==
    [v EXCEPT !.m_zoomBoxIsShown = TRUE, !.m_zoomBoxStartCorner = << x, y >>]

\* fmin of two ints
FMin(a, b) == IF a < b THEN a ELSE b

\* (signbit(w) ? -1 : 1)
SignOf(p) == IF p[1] < 0 THEN Real(-1) ELSE Real(1)

\* a zoomBoxContinue that would take the mouse position as the end corner
View_zoomBoxContinueUnlocked(v, x, y) ==
    IF ~v.m_zoomBoxIsShown THEN v
    ELSE [v EXCEPT !.m_zoomBoxEndCorner = << x, y >>,
                   !.m_zoomBoxShape =
                       [position |-> << Real(FMin(v.m_zoomBoxStartCorner[1], x)),
                                        Real(FMin(v.m_zoomBoxStartCorner[2], y)) >>,
                        size |-> << Real(Abs(x - v.m_zoomBoxStartCorner[1])),
                                    Real(Abs(y - v.m_zoomBoxStartCorner[2])) >>]]

\* View::zoomBoxContinue: the end corner of the box of the View's aspect
\* ratio, and the shape that is drawn
View_zoomBoxContinue(v, x, y) ==
    IF ~v.m_zoomBoxIsShown THEN v
    ELSE LET w0 == Real(x - v.m_zoomBoxStartCorner[1])
             h0 == Real(y - v.m_zoomBoxStartCorner[2])
             wide == Less(FAbs(w0), Mul(v.m_aspectRatio, FAbs(h0)))
             w == IF wide THEN Mul(Mul(FAbs(h0), v.m_aspectRatio), SignOf(w0)) ELSE w0
             h == IF wide THEN h0 ELSE Mul(Div(FAbs(w0), v.m_aspectRatio), SignOf(h0))
             endCorner == << v.m_zoomBoxStartCorner[1] + Truncate(w),
                             v.m_zoomBoxStartCorner[2] + Truncate(h) >>
         IN  [v EXCEPT !.m_zoomBoxEndCorner = endCorner,
                       !.m_zoomBoxShape =
                           [position |-> << Real(FMin(v.m_zoomBoxStartCorner[1], endCorner[1])),
                                            Real(FMin(v.m_zoomBoxStartCorner[2], endCorner[2])) >>,
                            size |-> << FAbs(w), FAbs(h) >>]]

\* a zoomBoxEnd without the test of the height
View_zoomBoxEndAnyHeight(v, x, y) ==
    LET c == View_zoomBoxContinue(v, x, y)
        h == Abs(c.m_zoomBoxEndCorner[2] - c.m_zoomBoxStartCorner[2])
        mid == << IntDiv(c.m_zoomBoxStartCorner[1] + c.m_zoomBoxEndCorner[1], 2),
                  IntDiv(c.m_zoomBoxStartCorner[2] + c.m_zoomBoxEndCorner[2], 2) >>
        at == View_complexAtPixel(c, mid[1], mid[2])
        moved == View_moveTo(c, at[1], at[2])
        scaled == View_setScale(moved, Div(Mul(moved.m_scale, Real(h)),
                                           Real(moved.m_screenSize[2])))
    IN  [scaled EXCEPT !.m_zoomBoxIsShown = FALSE,
                       !.m_zoomBoxShape.size = << Real(0), Real(0) >>]

\* a zoomBoxEnd that would set the scale before it moves
View_zoomBoxEndScaleFirst(v, x, y) ==
    LET c == View_zoomBoxContinue(v, x, y)
        h == Abs(c.m_zoomBoxEndCorner[2] - c.m_zoomBoxStartCorner[2])
        mid == << IntDiv(c.m_zoomBoxStartCorner[1] + c.m_zoomBoxEndCorner[1], 2),
                  IntDiv(c.m_zoomBoxStartCorner[2] + c.m_zoomBoxEndCorner[2], 2) >>
        scaled == View_setScale(c, Div(Mul(c.m_scale, Real(h)), Real(c.m_screenSize[2])))
        at == View_complexAtPixel(scaled, mid[1], mid[2])
        moved == View_moveTo(scaled, at[1], at[2])
    IN  [(IF h > 0 THEN moved ELSE c) EXCEPT !.m_zoomBoxIsShown = FALSE,
                                             !.m_zoomBoxShape.size = << Real(0), Real(0) >>]

\* View::zoomBoxEnd
View_zoomBoxEnd(v, x, y) ==
    LET c == View_zoomBoxContinue(v, x, y)
        h == Abs(c.m_zoomBoxEndCorner[2] - c.m_zoomBoxStartCorner[2])
        mid == << IntDiv(c.m_zoomBoxStartCorner[1] + c.m_zoomBoxEndCorner[1], 2),
                  IntDiv(c.m_zoomBoxStartCorner[2] + c.m_zoomBoxEndCorner[2], 2) >>
        at == View_complexAtPixel(c, mid[1], mid[2])
        moved == View_moveTo(c, at[1], at[2])
        scaled == View_setScale(moved, Div(Mul(moved.m_scale, Real(h)),
                                           Real(moved.m_screenSize[2])))
    IN  [(IF h > 0 THEN scaled ELSE c) EXCEPT !.m_zoomBoxIsShown = FALSE,
                                              !.m_zoomBoxShape.size = << Real(0), Real(0) >>]

\* View::zoomBoxCancel
View_zoomBoxCancel(v) == [v EXCEPT !.m_zoomBoxIsShown = FALSE]

\* the member initialisers of View.hpp and the default constructed members
MemberInit(screenWidth, screenHeight) ==
    [m_dirty |-> TRUE, m_scale |-> Real(2), m_zoom |-> Zoom(1),
     m_centre |-> << Real(0), Real(0) >>,
     m_rect |-> [left |-> Real(0), top |-> Real(0), width |-> Real(0), height |-> Real(0)],
     m_screenSize |-> << screenWidth, screenHeight >>,
     m_aspectRatio |-> Frac(screenWidth, screenHeight),
     m_zoomBoxIsShown |-> FALSE,
     m_zoomBoxStartCorner |-> << 0, 0 >>,
     m_zoomBoxEndCorner |-> << 0, 0 >>,
     m_zoomBoxShape |-> [position |-> << Real(0), Real(0) >>,
                         size |-> << Real(0), Real(0) >>]]

\* View::View(x, y, zoom, screenWidth, screenHeight)
View_View(x, y, zoom, screenWidth, screenHeight) ==
    View_zoomTo(View_moveTo(MemberInit(screenWidth, screenHeight), x, y), zoom)

\* m_renderingView(-0.5, 0.0, 1.0, width, height)
ConstructedView == View_View(<< -1, 2 >>, Real(0), Zoom(1), Width, Height)

\* a + b in int, wrapping at 32 bits
IntAdd(a, b) ==
    IF a > 0 /\ b > 0 /\ a > 2147483647 - b
    THEN ((a - 2147483647) - 1) + ((b - 2147483647) - 1)
    ELSE IF a < 0 /\ b < 0 /\ a < (-2147483647 - 1) - b
    THEN ((a + 2147483647) + 1) + ((b + 2147483647) + 1)
    ELSE a + b

\* 10 * a in int, wrapping at 32 bits
IntTimesTen(a) ==
    LET a2 == IntAdd(a, a)
        a4 == IntAdd(a2, a2)
        a8 == IntAdd(a4, a4)
    IN  IntAdd(a8, a2)

\* a - b in int, wrapping at 32 bits
IntSub(a, b) ==
    IF b = -2147483647 - 1 THEN IntAdd(IntAdd(a, 2147483647), 1) ELSE IntAdd(a, -b)

\* static_cast<int>(getZoom()): truncation towards zero; of a zoom that is
\* not finite the cast is undefined
ZoomAsInt(z) == IF Finite(z) THEN { ZoomTruncate(z) } ELSE UndefinedInt

\* MAX_ITERATIONS of mandelbrot for the value i of the cast
MAX_ITERATIONS(i) == IntSub(120, IntTimesTen(i))

\* a pass of the loop that would test z before it updates it
PassTestFirst(l, z0, max) ==
    IF l.returned \/ l.n >= max THEN l
    ELSE IF l.z[1] * l.z[1] + l.z[2] * l.z[2] > 16
         THEN [l EXCEPT !.returned = TRUE, !.value = Frac(l.n, max)]
         ELSE [l EXCEPT !.z = << l.z[1] * l.z[1] - l.z[2] * l.z[2] + z0[1],
                                 2 * l.z[1] * l.z[2] + z0[2] >>,
                        !.n = l.n + 1]

\* one pass of the loop of mandelbrot, for whole numbers z0: l.n is the
\* loop counter, l.z the iterated number, l.returned whether the loop has
\* returned l.value
Pass(l, z0, max) ==
    IF l.returned \/ l.n >= max THEN l
    ELSE LET next == << l.z[1] * l.z[1] - l.z[2] * l.z[2] + z0[1],
                        2 * l.z[1] * l.z[2] + z0[2] >>
         IN  IF next[1] * next[1] + next[2] * next[2] > 16
             THEN [l EXCEPT !.returned = TRUE, !.value = Frac(l.n, max)]
             ELSE [l EXCEPT !.z = next, !.n = l.n + 1]

\* sixteen passes of the loop
Passes(l, z0, max) ==
    LET l2 == Pass(Pass(l, z0, max), z0, max)
        l4 == Pass(Pass(l2, z0, max), z0, max)
        l6 == Pass(Pass(l4, z0, max), z0, max)
        l8 == Pass(Pass(l6, z0, max), z0, max)
        l10 == Pass(Pass(l8, z0, max), z0, max)
        l12 == Pass(Pass(l10, z0, max), z0, max)
        l14 == Pass(Pass(l12, z0, max), z0, max)
    IN  Pass(Pass(l14, z0, max), z0, max)

\* the loop of mandelbrot up to its end, and return 1.0 after it
RECURSIVE Iterate(_, _, _)
Iterate(l, z0, max) ==
    IF l.returned THEN l.value
    ELSE IF l.n >= max THEN Real(1)
    ELSE Iterate(Passes(l, z0, max), z0, max)

\* MandelbrotRenderer::mandelbrot(z0) on m_renderingView = v: the values it
\* can return, each with the MAX_ITERATIONS it has counted to
mandelbrot(v, z0) ==
    { [maxIterations |-> MAX_ITERATIONS(i),
       value |-> Iterate([z |-> z0, n |-> 0, returned |-> FALSE, value |-> Real(0)],
                         z0, MAX_ITERATIONS(i))] : i \in ZoomAsInt(v.m_zoom) }

\* fmod(a, b) for b > 0: a minus b times the whole part of a / b
FMod(a, b) == Sub(a, Mul(b, Real(Truncate(Div(a, b)))))

\* sf::Color(r, g, b): alpha is 255; sf::Color() is Color(0, 0, 0)
Color(r, g, b) == << r, g, b, 255 >>

\* hueToRGB(h) of a Real h: the byte x and the switch on (int)h / 60
hueToRGB(h) ==
    LET x == Truncate(Mul(Real(255),
                          Sub(Real(1), FAbs(Sub(FMod(Div(h, Real(60)), Real(2)), Real(1))))))
                 % 256
        segment == IntDiv(Truncate(h), 60)
    IN  CASE segment = 0 -> Color(255, x, 0)
          [] segment = 1 -> Color(x, 255, 0)
          [] segment = 2 -> Color(0, 255, x)
          [] segment = 3 -> Color(0, x, 255)
          [] segment = 4 -> Color(x, 0, 255)
          [] segment = 5 -> Color(255, 0, x)
          [] OTHER -> Color(0, 0, 0)

\* the body of the loops of render() after m = mandelbrot(z): the four bytes
\* it writes at currentPixel
PixelBytes(m) ==
    LET c == IF Less(m, Real(1)) THEN hueToRGB(Mul(Real(360), m)) ELSE Color(0, 0, 0)
    IN  << c[1], c[2], c[3], 255 >>

\* no box zoom is under way
NoGesture == [phase |-> "none", saved |-> << >>]

NoCall == [op |-> "View", args |-> << >>, before |-> ConstructedView, ret |-> "void",
           gesture |-> NoGesture]

(***************************************************************************)
(* The renderer with a pool of tile threads (the older main.cpp): draw()   *)
(* with renderingThreads[THREAD_POOL_SIZE] and completedThreads, and       *)
(* renderPixels.  PIXEL_DIVISION is 4 in the source.                       *)
(***************************************************************************)
THREAD_POOL_SIZE == PixelDivision * PixelDivision
ALREADY_DISPLAYED == -1
Threads == 0..(THREAD_POOL_SIZE - 1)

\* sf::Rect<int>(SUB_RENDER_W * i, SUB_RENDER_H * j, SUB_RENDER_W, SUB_RENDER_H)
\* of renderingThreads[i * PIXEL_DIVISION + j]
TileRect(t, screen) ==
    LET i == t \div PixelDivision
        j == t % PixelDivision
        SUB_RENDER_W == screen[1] \div PixelDivision
        SUB_RENDER_H == screen[2] \div PixelDivision
    IN  [left |-> SUB_RENDER_W * i, top |-> SUB_RENDER_H * j,
         width |-> SUB_RENDER_W, height |-> SUB_RENDER_H]

\* a toNextRow that would not take the width of the rectangle off
ToNextRowOfScreen(rect, screenW) == 4 * screenW

\* toNextRow = toNextCol * (SCREEN_W - rect.width)
ToNextRow(rect, screenW) == 4 * (screenW - rect.width)

\* renderPixels: the values of currentPixel - pixels at which the four
\* bytes of a pixel are written; currentPixel starts at
\* 4 * (rect.top * SCREEN_W + rect.left), advances by toNextCol after a
\* pixel and by toNextRow after a row
WrittenAt(rect, screenW) ==
    LET first == 4 * (rect.top * screenW + rect.left)
        row == 4 * rect.width + ToNextRow(rect, screenW)
    IN  { first + (y - rect.top) * row + 4 * (x - rect.left) :
              x \in rect.left..(rect.left + rect.width - 1),
              y \in rect.top..(rect.top + rect.height - 1) }

\* draw() before its loop: the buffers of the size of the window, the
\* threads created and not launched, the View dirty from its constructor.
\* pixels[k] counts the writes to pixel k since the buffer was zeroed.
NewPool(screen) ==
    [screen |-> screen,
     pixels |-> [k \in 0..(screen[1] * screen[2] - 1) |-> 0],
     stray |-> FALSE,
     threads |-> [t \in Threads |-> [ph |-> "off", read |-> 0]],
     completedThreads |-> 0,
     pc |-> "loop",
     open |-> TRUE,
     dirty |-> TRUE,
     changes |-> MaxEvents,
     promotions |-> 0]

\* the window of main(): sf::VideoMode(SCREEN_W, SCREEN_H)
PoolScreen == << 2 * PixelDivision, 2 * PixelDivision >>

MainInit ==
    /\ m_renderingView = InitialView
    /\ m_completedView = DefaultView
    /\ m_renderingPixels = << >>
    /\ m_completedPixels = << >>
    /\ m_renderingState = "Rendering"
    /\ m_cancelling = FALSE
    /\ m_resizing = FALSE
    /\ windowOpen = TRUE
    /\ inputTodo = << [op |-> "run", val |-> 0] >>
    /\ events = MaxEvents
    /\ drawPc = "off"
    /\ running = FALSE
    /\ units = [u \in Units |-> IdleUnit]
    /\ launchView = NoView
    /\ passCut = FALSE
    /\ promotions = 0
    /\ completedCut = FALSE
    /\ tickLog = << >>
    /\ lastDetailedFull = FALSE
    /\ layers = << >>
    /\ uaf = FALSE
    /\ theView = ConstructedView
    /\ lastCall = NoCall
    /\ calls = 0

Init == MainInit /\ pool = NewPool(PoolScreen)

(***************************************************************************)
(* sf::Thread                                                              *)
(***************************************************************************)
\* a cancelRendering() whose wait would not block
WaitReturnsAtOnce == TRUE

\* cancelRendering(): m_renderingThread.wait() returns once the thread
\* function has returned
WaitReturns == ~running

\* m_renderingThread.launch() starts render() once a previous run has returned
LaunchReady == ~running

\* some worker unit of the running pass still has rows to work on
PassWriting == running /\ \E u \in Units : units[u].ph # "done"

\* every pixel of m_renderingPixels has been written by render()
FullFrame ==
    /\ m_renderingPixels # << >>
    /\ \A i \in 1..NPixels : m_renderingPixels[i].a = 255

(***************************************************************************)
(* Drawing thread: MandelbrotRenderer::draw()                              *)
(***************************************************************************)
\* draw(), before the loop: allocate the buffers, copy the View
DrawStart ==
    /\ drawPc = "alloc"
    /\ m_renderingPixels' = NewBuffer
    /\ m_completedPixels' = NewBuffer
    /\ m_completedView' = Snapshot(m_renderingView)
    /\ completedCut' = FALSE
    /\ drawPc' = "loop"
    /\ UNCHANGED << viewVars, m_renderingView, m_renderingState, m_cancelling, m_resizing,
                    windowOpen, inputVars, renderVars, promotions, tickLog,
                    lastDetailedFull, layers >>

\* while (m_window.isOpen() && !m_resizing)
LoopCondition == windowOpen /\ ~m_resizing

\* head of a tick: the loop condition, then if (m_renderingView.isDirty());
\* a clean tick goes on to the layers of the frame
DrawLoop ==
    /\ drawPc = "loop"
    /\ drawPc' = IF ~LoopCondition THEN "free"
                 ELSE IF m_renderingView.dirty THEN "clearDirty"
                 ELSE "roughCheck"
    /\ tickLog' = << >>
    /\ layers' = << >>
    /\ UNCHANGED << viewVars, m_renderingView, m_completedView, m_renderingPixels,
                    m_completedPixels, m_renderingState, m_cancelling, m_resizing,
                    windowOpen, inputVars, renderVars, promotions, completedCut,
                    lastDetailedFull >>

\* m_renderingView.isDirty(false)
DrawClearDirty ==
    /\ drawPc = "clearDirty"
    /\ m_renderingView' = [m_renderingView EXCEPT !.dirty = FALSE]
    /\ drawPc' = "cancelSet"
    /\ tickLog' = Append(tickLog, "clearDirty")
    /\ UNCHANGED << viewVars, m_completedView, m_renderingPixels, m_completedPixels,
                    m_renderingState, m_cancelling, m_resizing, windowOpen,
                    inputVars, renderVars, promotions, completedCut,
                    lastDetailedFull, layers >>

\* cancelRendering(): m_cancelling = true
DrawCancelSet ==
    /\ drawPc = "cancelSet"
    /\ m_cancelling' = TRUE
    /\ drawPc' = "cancelWait"
    /\ UNCHANGED << viewVars, m_renderingView, m_completedView, m_renderingPixels,
                    m_completedPixels, m_renderingState, m_resizing, windowOpen,
                    inputVars, renderVars, ghostDraw >>

\* cancelRendering(): m_renderingThread.wait()
DrawCancelWait ==
    /\ drawPc = "cancelWait"
    /\ WaitReturns
    /\ drawPc' = "cancelClear"
    /\ tickLog' = Append(tickLog, "cancel")
    /\ UNCHANGED << viewVars, m_renderingView, m_completedView, m_renderingPixels,
                    m_completedPixels, m_renderingState, m_cancelling, m_resizing,
                    windowOpen, inputVars, renderVars, promotions, completedCut,
                    lastDetailedFull, layers >>

\* cancelRendering(): m_cancelling = false
DrawCancelClear ==
    /\ drawPc = "cancelClear"
    /\ m_cancelling' = FALSE
    /\ drawPc' = "rough"
    /\ UNCHANGED << viewVars, m_renderingView, m_completedView, m_renderingPixels,
                    m_completedPixels, m_renderingState, m_resizing, windowOpen,
                    inputVars, renderVars, ghostDraw >>

\* for (i < m_bufferSizeBytes) m_renderingPixels[i] = 0
ClearedBuffer == [i \in 1..NPixels |-> ZeroPixel]

\* a dirty branch that would launch before it assigns Rendering
AfterZeroLaunchFirst == << "launch", "setRendering", "roughCheck" >>

\* the statements of the dirty branch after the buffer is cleared, in program
\* order, and the statement that follows the branch
AfterZero == << "setRendering", "launch", "roughCheck" >>

NextInBranch(pc) ==
    LET i == CHOOSE k \in 1..Len(AfterZero) : AfterZero[k] = pc
    IN  AfterZero[i + 1]

\* roughDraw(); display(); clear(); draw(m_sprite); display(); then the
\* loop that sets every byte of m_renderingPixels to 0
DrawRoughZero ==
    /\ drawPc = "rough"
    /\ m_renderingPixels' = ClearedBuffer
    /\ drawPc' = AfterZero[1]
    /\ tickLog' = tickLog \o << "rough", "zero" >>
    /\ UNCHANGED << viewVars, m_renderingView, m_completedView, m_completedPixels,
                    m_renderingState, m_cancelling, m_resizing, windowOpen,
                    inputVars, renderVars, promotions, completedCut,
                    lastDetailedFull, layers >>

\* m_renderingState = RenderingState::Rendering
DrawSetRendering ==
    /\ drawPc = "setRendering"
    /\ m_renderingState' = "Rendering"
    /\ drawPc' = NextInBranch("setRendering")
    /\ tickLog' = Append(tickLog, "setRendering")
    /\ UNCHANGED << viewVars, m_renderingView, m_completedView, m_renderingPixels,
                    m_completedPixels, m_cancelling, m_resizing, windowOpen,
                    inputVars, renderVars, promotions, completedCut,
                    lastDetailedFull, layers >>

\* position of a worker unit when the parallel loop of render() starts
StartUnit(u) ==
    IF FirstRow(u) < EndRow(u)
    THEN [ph |-> "check", y |-> FirstRow(u), x |-> 0, z |-> NoView]
    ELSE IdleUnit

\* m_renderingThread.launch(): wait(), then start render()
DrawLaunch ==
    /\ drawPc = "launch"
    /\ LaunchReady
    /\ running' = TRUE
    /\ units' = [u \in Units |-> StartUnit(u)]
    /\ launchView' = ViewKey(m_renderingView)
    /\ passCut' = FALSE
    /\ promotions' = 0
    /\ drawPc' = NextInBranch("launch")
    /\ tickLog' = Append(tickLog, "launch")
    /\ UNCHANGED << viewVars, m_renderingView, m_completedView, m_renderingPixels,
                    m_completedPixels, m_renderingState, m_cancelling, m_resizing,
                    windowOpen, inputVars, uaf, completedCut, lastDetailedFull,
                    layers >>

\* the condition of the rough composite
RoughWantedAlways == TRUE

\* if (m_renderingState == RenderingState::Rendering ||
\*     m_renderingView.getZoomBoxIsShown())
RoughWanted == m_renderingState = "Rendering" \/ m_renderingView.zoomBoxIsShown

\* the rough composite as background: roughDraw(); shouldDisplay = true
DrawRoughCheck ==
    /\ drawPc = "roughCheck"
    /\ layers' = IF RoughWanted THEN Append(layers, "rough") ELSE layers
    /\ drawPc' = "detailedCheck"
    /\ UNCHANGED << viewVars, m_renderingView, m_completedView, m_renderingPixels,
                    m_completedPixels, m_renderingState, m_cancelling, m_resizing,
                    windowOpen, inputVars, renderVars, promotions, completedCut,
                    tickLog, lastDetailedFull >>

\* if (m_renderingState != RenderingState::Displayed)
DrawDetailedCheck ==
    /\ drawPc = "detailedCheck"
    /\ drawPc' = IF m_renderingState # "Displayed" THEN "detailed" ELSE "promoteCheck"
    /\ UNCHANGED << viewVars, m_renderingView, m_completedView, m_renderingPixels,
                    m_completedPixels, m_renderingState, m_cancelling, m_resizing,
                    windowOpen, inputVars, renderVars, ghostDraw >>

\* detailedDraw(): m_buffer.update(m_renderingPixels); draw the sprite
detailedDraw ==
    /\ drawPc = "detailed"
    /\ lastDetailedFull' = (FullFrame /\ ~PassWriting)
    /\ layers' = Append(layers, "detailed")
    /\ drawPc' = "promoteCheck"
    /\ UNCHANGED << viewVars, m_renderingView, m_completedView, m_renderingPixels,
                    m_completedPixels, m_renderingState, m_cancelling, m_resizing,
                    windowOpen, inputVars, renderVars, promotions, completedCut,
                    tickLog >>

\* if (m_renderingState == RenderingState::Completed)
DrawPromoteCheck ==
    /\ drawPc = "promoteCheck"
    /\ drawPc' = IF m_renderingState = "Completed" THEN "promote" ELSE "outline"
    /\ UNCHANGED << viewVars, m_renderingView, m_completedView, m_renderingPixels,
                    m_completedPixels, m_renderingState, m_cancelling, m_resizing,
                    windowOpen, inputVars, renderVars, ghostDraw >>

\* for (i < m_bufferSizeBytes) m_completedPixels[i] = m_renderingPixels[i]
CopiedFrame == m_renderingPixels

\* a promotion that would leave the state at Completed
PromotedStateKept == "Completed"

\* m_renderingState = RenderingState::Displayed
PromotedState == "Displayed"

\* the promotion, first part: the loop that copies the frame
DrawPromote ==
    /\ drawPc = "promote"
    /\ m_completedPixels' = CopiedFrame
    /\ completedCut' = (passCut /\ \E i \in 1..NPixels : m_renderingPixels[i].a = 255)
    /\ drawPc' = "setDisplayed"
    /\ UNCHANGED << viewVars, m_renderingView, m_completedView, m_renderingPixels,
                    m_renderingState, m_cancelling, m_resizing, windowOpen,
                    inputVars, renderVars, promotions, tickLog, lastDetailedFull,
                    layers >>

\* the promotion, second part: m_completedView = m_renderingView;
\* m_renderingState = RenderingState::Displayed
DrawSetDisplayed ==
    /\ drawPc = "setDisplayed"
    /\ m_completedView' = Snapshot(m_renderingView)
    /\ m_renderingState' = PromotedState
    /\ promotions' = IF promotions < 2 THEN promotions + 1 ELSE 2
    /\ drawPc' = "outline"
    /\ UNCHANGED << viewVars, m_renderingView, m_renderingPixels, m_completedPixels,
                    m_cancelling, m_resizing, windowOpen, inputVars, renderVars,
                    completedCut, tickLog, lastDetailedFull, layers >>

\* shouldDisplay of a tick that has drawn the layers in drawn
DisplayAlways(drawn) == TRUE

\* bool shouldDisplay: set by each of the three layers
ShouldDisplay(drawn) == drawn # << >>

\* end of a tick: if (getZoomBoxIsShown()) draw the outline of the zoom box;
\* if (shouldDisplay) m_window.display()
DrawOutlineDisplay ==
    /\ drawPc = "outline"
    /\ LET drawn == IF m_renderingView.zoomBoxIsShown
                    THEN Append(layers, "outline") ELSE layers
       IN  layers' = IF ShouldDisplay(drawn) THEN Append(drawn, "display") ELSE drawn
    /\ drawPc' = "loop"
    /\ UNCHANGED << viewVars, m_renderingView, m_completedView, m_renderingPixels,
                    m_completedPixels, m_renderingState, m_cancelling, m_resizing,
                    windowOpen, inputVars, renderVars, promotions, completedCut,
                    tickLog, lastDetailedFull >>

\* after the loop: delete[] both buffers, set the pointers to nullptr
DrawFree ==
    /\ drawPc = "free"
    /\ m_renderingPixels' = << >>
    /\ m_completedPixels' = << >>
    /\ drawPc' = "off"
    /\ UNCHANGED << viewVars, m_renderingView, m_completedView, m_renderingState,
                    m_cancelling, m_resizing, windowOpen, inputVars, renderVars,
                    ghostDraw >>

draw ==
    \/ DrawStart \/ DrawLoop \/ DrawClearDirty
    \/ DrawCancelSet \/ DrawCancelWait \/ DrawCancelClear
    \/ DrawRoughZero \/ DrawSetRendering \/ DrawLaunch
    \/ DrawRoughCheck \/ DrawDetailedCheck \/ detailedDraw
    \/ DrawPromoteCheck \/ DrawPromote \/ DrawSetDisplayed \/ DrawOutlineDisplay
    \/ DrawFree

(***************************************************************************)
(* Render thread: MandelbrotRenderer::render()                             *)
(***************************************************************************)
\* position of unit u after it has written pixel (x, y)
AfterPixel(u, x, y) ==
    IF x + 1 < Width
    THEN [ph |-> "coord", y |-> y, x |-> x + 1, z |-> NoView]
    ELSE IF y + 1 < EndRow(u)
         THEN [ph |-> "check", y |-> y + 1, x |-> 0, z |-> NoView]
         ELSE IdleUnit

\* top of the row loop: if (m_cancelling) break;
RenderRowCheck(u) ==
    /\ running
    /\ units[u].ph = "check"
    /\ IF m_cancelling
       THEN units' = [units EXCEPT ![u] = IdleUnit] /\ passCut' = TRUE
       ELSE units' = [units EXCEPT ![u].ph = "coord"] /\ UNCHANGED passCut
    /\ UNCHANGED << viewVars, m_renderingView, m_completedView, m_renderingPixels,
                    m_completedPixels, m_renderingState, m_cancelling, m_resizing,
                    windowOpen, inputVars, drawPc, running, launchView, uaf,
                    ghostDraw >>

\* the View complexAtPixel(x, y) computes with: m_centre and m_scale of the
\* member m_renderingView
CoordView == ViewKey(m_renderingView)

\* Complex z = m_renderingView.complexAtPixel(x, y)
RenderCoord(u) ==
    /\ running
    /\ units[u].ph = "coord"
    /\ units' = [units EXCEPT ![u].ph = "iter", ![u].z = CoordView]
    /\ UNCHANGED << viewVars, m_renderingView, m_completedView, m_renderingPixels,
                    m_completedPixels, m_renderingState, m_cancelling, m_resizing,
                    windowOpen, inputVars, drawPc, running, launchView, passCut,
                    uaf, ghostDraw >>

\* mandelbrot(z) reads m_renderingView.getZoom() for MAX_ITERATIONS; then the
\* four bytes of the pixel are written, alpha = 0xFF
RenderPixel(u) ==
    /\ running
    /\ units[u].ph = "iter"
    /\ LET x == units[u].x
           y == units[u].y
           px == [a |-> 255, v |-> units[u].z, m |-> m_renderingView.zoom]
       IN  /\ IF m_renderingPixels = << >>
              THEN uaf' = TRUE /\ UNCHANGED m_renderingPixels
              ELSE /\ m_renderingPixels' =
                         [m_renderingPixels EXCEPT ![PixelIndex(x, y)] = px]
                   /\ UNCHANGED uaf
           /\ units' = [units EXCEPT ![u] = AfterPixel(u, x, y)]
    /\ UNCHANGED << viewVars, m_renderingView, m_completedView, m_completedPixels,
                    m_renderingState, m_cancelling, m_resizing, windowOpen,
                    inputVars, drawPc, running, launchView, passCut, ghostDraw >>

\* the parallel loop has ended in every unit
LoopEnded == \A u \in Units : units[u].ph = "done"

\* a render() that would signal Displayed itself
SignalledStateDisplayed == "Displayed"

\* the value render() assigns to m_renderingState after the loop
SignalledState == "Completed"

\* after the loop: m_renderingState = RenderingState::Completed; return
RenderEnd ==
    /\ running
    /\ LoopEnded
    /\ m_renderingState' = SignalledState
    /\ running' = FALSE
    /\ UNCHANGED << viewVars, m_renderingView, m_completedView, m_renderingPixels,
                    m_completedPixels, m_cancelling, m_resizing, windowOpen,
                    inputVars, drawPc, units, launchView, passCut, uaf, ghostDraw >>

render ==
    \/ \E u \in Units : RenderRowCheck(u) \/ RenderCoord(u) \/ RenderPixel(u)
    \/ RenderEnd

(***************************************************************************)
(* Input thread: run(), handleEvents() and the handlers                    *)
(***************************************************************************)
Op(name, value) == [op |-> name, val |-> value]
AtOp(name) == inputTodo # << >> /\ Head(inputTodo).op = name
InputAdvance == inputTodo' = Tail(inputTodo)

\* View::moveBy / moveTo: m_centre, isDirty(true), updateViewport()
MoveSteps(c) == << Op("centre", c), Op("dirty", 0), Op("viewport", 0) >>
\* View::zoomTo / zoomBy / setScale: m_zoom and m_scale, isDirty(true), updateViewport()
ZoomSteps(z) == << Op("zoom", z), Op("dirty", 0), Op("viewport", 0) >>
\* cancelRendering()
CancelSteps == << Op("cancelSet", 0), Op("cancelWait", 0), Op("cancelClear", 0) >>

\* case sf::Event::Closed: cancelRendering(); m_window.close();
\* then run() leaves its loop, waits for the drawing thread and returns
ClosedSteps == CancelSteps \o << Op("close", 0), Op("joinDraw", 0), Op("returned", 0) >>

\* handleKeys: arrows / WASD
KeyMoveSteps(d) == MoveSteps(m_renderingView.centre + d)
\* handleKeys: R
KeyResetSteps == MoveSteps(0) \o ZoomSteps(0)
\* handleMouseWheel
WheelSteps(d) == ZoomSteps(m_renderingView.zoom + d)
\* handleMouseReleased, left button: View::zoomBoxEnd
\* h is the pixel height of the box, c the centre of the box, z the new zoom
ReleaseSteps(h, c, z) ==
    (IF h > 0 THEN MoveSteps(c) \o ZoomSteps(z) ELSE << >>) \o << Op("boxOff", 0) >>
\* handleResize
ResizeSteps ==
    << Op("resizing", 0) >> \o CancelSteps \o << Op("joinDraw", 0), Op("resize", 0) >>

\* the handlers the event loop can dispatch to, as the steps they will take
Handlers ==
    { ClosedSteps, KeyResetSteps, ResizeSteps,
      << Op("boxOn", 0) >>, << Op("boxOff", 0) >>, << Op("boxContinue", 0) >> }
    \cup { KeyMoveSteps(d) : d \in { dd \in {-1, 1} : m_renderingView.centre + dd \in Centres } }
    \cup { WheelSteps(d) : d \in { dd \in {-1, 1} : m_renderingView.zoom + dd \in Zooms } }
    \cup { ReleaseSteps(h, c, z) : h \in 0..1, c \in Centres, z \in Zooms }

\* run(): m_drawingThread.launch()
Run ==
    /\ AtOp("run")
    /\ drawPc' = "alloc"
    /\ InputAdvance
    /\ UNCHANGED << viewVars, m_renderingView, m_completedView, m_renderingPixels,
                    m_completedPixels, m_renderingState, m_cancelling, m_resizing,
                    windowOpen, events, renderVars, ghostDraw >>

\* handleEvents(): m_window.pollEvent(event) and the switch on event.type
handleEvents ==
    /\ inputTodo = << >>
    /\ events > 0
    /\ events' = events - 1
    /\ \E h \in Handlers : inputTodo' = h
    /\ UNCHANGED << viewVars, m_renderingView, m_completedView, m_renderingPixels,
                    m_completedPixels, m_renderingState, m_cancelling, m_resizing,
                    windowOpen, drawPc, renderVars, ghostDraw >>

\* a step of a View mutator or of the zoom box on m_renderingView
\* (zoomBoxContinue changes the corners and the shape of the box only)
ViewAfter(view, op, value) ==
    CASE op = "centre" -> [view EXCEPT !.centre = value]
      [] op = "zoom" -> [view EXCEPT !.zoom = value]
      [] op = "dirty" -> [view EXCEPT !.dirty = TRUE]
      [] op = "viewport" -> [view EXCEPT !.rect = << view.centre, view.zoom >>]
      [] op = "boxOn" -> [view EXCEPT !.zoomBoxIsShown = TRUE]
      [] op = "boxOff" -> [view EXCEPT !.zoomBoxIsShown = FALSE]
      [] op = "boxContinue" -> view

ViewOps == { "centre", "zoom", "dirty", "viewport", "boxOn", "boxOff", "boxContinue" }

ViewStep ==
    /\ inputTodo # << >>
    /\ Head(inputTodo).op \in ViewOps
    /\ m_renderingView' =
          ViewAfter(m_renderingView, Head(inputTodo).op, Head(inputTodo).val)
    /\ InputAdvance
    /\ UNCHANGED << viewVars, m_completedView, m_renderingPixels, m_completedPixels,
                    m_renderingState, m_cancelling, m_resizing, windowOpen, events,
                    drawPc, renderVars, ghostDraw >>

\* cancelRendering(): m_cancelling = true
InputCancelSet ==
    /\ AtOp("cancelSet")
    /\ m_cancelling' = TRUE
    /\ InputAdvance
    /\ UNCHANGED << viewVars, m_renderingView, m_completedView, m_renderingPixels,
                    m_completedPixels, m_renderingState, m_resizing, windowOpen,
                    events, drawPc, renderVars, ghostDraw >>

\* cancelRendering(): m_renderingThread.wait()
InputCancelWait ==
    /\ AtOp("cancelWait")
    /\ WaitReturns
    /\ InputAdvance
    /\ UNCHANGED << viewVars, m_renderingView, m_completedView, m_renderingPixels,
                    m_completedPixels, m_renderingState, m_cancelling, m_resizing,
                    windowOpen, events, drawPc, renderVars, ghostDraw >>

\* cancelRendering(): m_cancelling = false
InputCancelClear ==
    /\ AtOp("cancelClear")
    /\ m_cancelling' = FALSE
    /\ InputAdvance
    /\ UNCHANGED << viewVars, m_renderingView, m_completedView, m_renderingPixels,
                    m_completedPixels, m_renderingState, m_resizing, windowOpen,
                    events, drawPc, renderVars, ghostDraw >>

\* m_window.close()
WindowClose ==
    /\ AtOp("close")
    /\ windowOpen' = FALSE
    /\ InputAdvance
    /\ UNCHANGED << viewVars, m_renderingView, m_completedView, m_renderingPixels,
                    m_completedPixels, m_renderingState, m_cancelling, m_resizing,
                    events, drawPc, renderVars, ghostDraw >>

\* m_drawingThread.wait()
JoinDraw ==
    /\ AtOp("joinDraw")
    /\ drawPc = "off"
    /\ InputAdvance
    /\ UNCHANGED << viewVars, m_renderingView, m_completedView, m_renderingPixels,
                    m_completedPixels, m_renderingState, m_cancelling, m_resizing,
                    windowOpen, events, drawPc, renderVars, ghostDraw >>

\* handleResize: m_resizing = true
SetResizing ==
    /\ AtOp("resizing")
    /\ m_resizing' = TRUE
    /\ InputAdvance
    /\ UNCHANGED << viewVars, m_renderingView, m_completedView, m_renderingPixels,
                    m_completedPixels, m_renderingState, m_cancelling, windowOpen,
                    events, drawPc, renderVars, ghostDraw >>

\* a resizeScreen that would leave the View clean
resizeScreenClean(view) == [view EXCEPT !.dirty = FALSE, !.rect = << view.centre, view.zoom >>]

\* View::resizeScreen for an event that carries the size the window has:
\* m_scale *= 1, isDirty(true), updateViewport()
resizeScreen(view) == [view EXCEPT !.dirty = TRUE, !.rect = << view.centre, view.zoom >>]

\* handleResize after the drawing thread has ended: m_width, m_height and
\* m_bufferSizeBytes from the event, resizeScreen of both views,
\* m_resizing = false, m_drawingThread.launch()
handleResize ==
    /\ AtOp("resize")
    /\ drawPc = "off"
    /\ m_renderingView' = resizeScreen(m_renderingView)
    /\ m_completedView' = [m_completedView EXCEPT
                             !.rect = << m_completedView.centre, m_completedView.zoom >>]
    /\ m_resizing' = FALSE
    /\ drawPc' = "alloc"
    /\ InputAdvance
    /\ UNCHANGED << viewVars, m_renderingPixels, m_completedPixels, m_renderingState,
                    m_cancelling, windowOpen, events, renderVars, ghostDraw >>

input ==
    \/ Run \/ handleEvents \/ ViewStep
    \/ InputCancelSet \/ InputCancelWait \/ InputCancelClear
    \/ WindowClose \/ JoinDraw \/ SetResizing \/ handleResize

Next == input \/ draw \/ render

Spec == Init /\ [][Next]_vars

\* a handler that has been entered runs on; the arrival of events is not fair
handlerSteps ==
    \/ Run \/ ViewStep
    \/ InputCancelSet \/ InputCancelWait \/ InputCancelClear
    \/ WindowClose \/ JoinDraw \/ SetResizing \/ handleResize

\* the three threads are scheduled fairly
FairSpec ==
    /\ Spec
    /\ WF_vars(handlerSteps)
    /\ WF_vars(draw)
    /\ WF_vars(render)

(***************************************************************************)
(* The View class called on its own: any sequence of at most MaxCalls      *)
(* calls of its public members on a constructed View                       *)
(***************************************************************************)
mainVars == << m_renderingView, m_completedView, m_renderingPixels, m_completedPixels,
               m_renderingState, m_cancelling, m_resizing, windowOpen, inputTodo, events,
               drawPc, running, units, launchView, passCut, promotions, completedCut,
               tickLog, lastDetailedFull, layers, uaf >>

\* the const members of View
Readers == { "getViewport", "getCentre", "getScale", "getZoom", "complexAtPixel",
             "pixelAtComplex", "isDirty" }

\* the box zoom of the mouse handlers after a call: the left button is
\* pressed (zoomBoxBegin, with the View as it was), the mouse moves
\* (zoomBoxContinue), the right button is pressed (zoomBoxCancel), the left
\* button is released (zoomBoxEnd); any other call that writes the View ends
\* the account of the gesture
GestureAfter(name, gesture, v) ==
    CASE name = "zoomBoxBegin" -> [phase |-> "begun", saved |-> v]
      [] name = "zoomBoxContinue" -> gesture
      [] name = "zoomBoxCancel" ->
            IF gesture.phase = "begun" THEN [gesture EXCEPT !.phase = "cancelled"]
            ELSE gesture
      [] name = "zoomBoxEnd" ->
            IF gesture.phase = "cancelled" THEN [gesture EXCEPT !.phase = "releasedAfterCancel"]
            ELSE NoGesture
      [] name \in Readers \cup { "mandelbrot", "hueToRGB", "render" } -> gesture
      [] OTHER -> NoGesture

\* one call of a member of View with its arguments: the View after it and
\* the value it returned
Call(name, args, after, value) ==
    /\ calls < MaxCalls
    /\ calls' = calls + 1
    /\ theView' = after
    /\ lastCall' = [op |-> name, args |-> args, before |-> theView, ret |-> value,
                    gesture |-> GestureAfter(name, lastCall.gesture, theView)]
    /\ UNCHANGED << mainVars, pool >>

PixelCoords == 0..MaxPixel
\* handleKeys: MOVEMENT_AMOUNT = 0.25 along one axis
Displacements == { << << -1, 4 >>, Real(0) >>, << << 1, 4 >>, Real(0) >>,
                   << Real(0), << -1, 4 >> >>, << Real(0), << 1, 4 >> >> }
\* the window sizes a Resized event carries
ScreenSizes == { << Width, Height >>, << Height, Width >>, << 2 * Width, 2 * Height >> }
\* the zoom of the R key and its neighbours
ZoomLevels == { Zoom(k) : k \in -MaxZoom..MaxZoom }
\* wheel deltas times ZOOM_AMOUNT, in halves: one notch and half a notch
WheelDeltas == { -2, -1, 1, 2 }
\* arguments of setScale: negative, zero, a power of two, not a power of two
Scales == { Real(-1), Real(0), << 1, 2 >>, Real(3) }
RectOf(l, t, w, h) == [left |-> l, top |-> t, width |-> w, height |-> h]
\* arguments of setViewport
Rects == { RectOf(Real(-2), Real(-1), Real(4), Real(2)),
           RectOf(Real(0), Real(0), Real(3), Real(3)),
           RectOf(Real(0), Real(0), Real(1), Real(0)),
           RectOf(Real(1), Real(1), Real(-2), Real(-2)) }
\* arguments of pixelAtComplex
Points == { << Real(0), Real(0) >>, << << -1, 2 >>, << 1, 2 >> >> }

CallMoveBy ==
    \E d \in Displacements : Call("moveBy", d, View_moveBy(theView, d[1], d[2]), "void")

CallMoveTo ==
    \E p \in Points : Call("moveTo", p, View_moveTo(theView, p[1], p[2]), "void")

\* zoomTo of a zoom level, or of the zoom at which MAX_ITERATIONS is 0
CallZoomTo ==
    \E z \in ZoomLevels \cup { Zoom(DeepZoom) } :
        Call("zoomTo", << z >>, View_zoomTo(theView, z), "void")

\* static_cast<long> of a zoom that is not finite is undefined: not followed
CallZoomBy ==
    /\ Finite(theView.m_zoom)
    /\ \E dhalf \in WheelDeltas : Call("zoomBy", << dhalf >>, View_zoomBy(theView, dhalf), "void")

CallSetScale ==
    \E s \in Scales : Call("setScale", << s >>, View_setScale(theView, s), "void")

\* setViewport of a given rectangle, or of the one getViewport returns
CallSetViewport ==
    \E r \in Rects \cup { theView.m_rect } :
        Call("setViewport", << r >>, View_setViewport(theView, r), "void")

CallResizeScreen ==
    \E s \in ScreenSizes :
        Call("resizeScreen", s, View_resizeScreen(theView, s[1], s[2]), "void")

\* the controller's m_renderingView.isDirty(false), and isDirty(true)
CallIsDirty ==
    \E d \in BOOLEAN : Call("isDirty(bool)", << d >>, View_isDirty(theView, d), "void")

CallZoomBoxBegin ==
    \E x \in PixelCoords, y \in PixelCoords :
        Call("zoomBoxBegin", << x, y >>, View_zoomBoxBegin(theView, x, y), "void")

CallZoomBoxContinue ==
    \E x \in PixelCoords, y \in PixelCoords :
        Call("zoomBoxContinue", << x, y >>, View_zoomBoxContinue(theView, x, y), "void")

CallZoomBoxEnd ==
    \E x \in PixelCoords, y \in PixelCoords :
        Call("zoomBoxEnd", << x, y >>, View_zoomBoxEnd(theView, x, y), "void")

CallZoomBoxCancel == Call("zoomBoxCancel", << >>, View_zoomBoxCancel(theView), "void")

\* the const members: they return a value and the View stays as it is
CallGetter ==
    \/ Call("getViewport", << >>, theView, theView.m_rect)
    \/ Call("getCentre", << >>, theView, theView.m_centre)
    \/ Call("getScale", << >>, theView, theView.m_scale)
    \/ Call("getZoom", << >>, theView, theView.m_zoom)
    \/ Call("isDirty", << >>, theView, theView.m_dirty)

CallComplexAtPixel ==
    \E x \in PixelCoords, y \in PixelCoords :
        Call("complexAtPixel", << x, y >>, theView, View_complexAtPixel(theView, x, y))

\* pixelAtComplex of a given point, or of the point complexAtPixel returns
\* for a pixel of the screen
CallPixelAtComplex ==
    \E p \in Points \cup { View_complexAtPixel(theView, q[1], q[2]) : q \in ScreenPixels(theView) } :
        \E r \in View_pixelAtComplexResults(theView, p[1], p[2]) :
            Call("pixelAtComplex", p, theView, r)

\* whole numbers z0: in the set (0 and i), leaving it at the first, the
\* second and the third step, and outside the threshold from the start
Orbits == { << 0, 0 >>, << 0, 1 >>, << 2, 0 >>, << 1, 0 >>, << -1, 1 >>, << 4, 1 >> }

\* mandelbrot(z0) of the renderer whose m_renderingView is the View
CallMandelbrot ==
    \E z0 \in Orbits : \E r \in mandelbrot(theView, z0) :
        Call("mandelbrot", z0, theView, r)

\* hues of the range 0:360, in steps of 7.5
Hues == { Frac(15 * n, 2) : n \in 0..48 }

CallHueToRGB == \E h \in Hues : Call("hueToRGB", << h >>, theView, hueToRGB(h))

\* one pixel of render() for a point z0: mandelbrot, then the bytes
CallRenderPixel ==
    \E z0 \in Orbits : \E r \in mandelbrot(theView, z0) :
        Call("render", z0, theView, [m |-> r.value, bytes |-> PixelBytes(r.value)])

\* the colouring of a pixel on its own, at the zooms the View can be given
ColourNext == CallZoomTo \/ CallZoomBy \/ CallHueToRGB \/ CallRenderPixel

ColourSpec == Init /\ [][ColourNext]_vars

ViewNext ==
    \/ CallMoveBy \/ CallMoveTo \/ CallZoomTo \/ CallZoomBy \/ CallSetScale
    \/ CallSetViewport \/ CallResizeScreen \/ CallIsDirty
    \/ CallZoomBoxBegin \/ CallZoomBoxContinue \/ CallZoomBoxEnd \/ CallZoomBoxCancel
    \/ CallGetter \/ CallComplexAtPixel \/ CallPixelAtComplex \/ CallMandelbrot

ViewSpec == Init /\ [][ViewNext]_vars

(***************************************************************************)
(* The renderer with a pool of tile threads: the drawing loop, the tile    *)
(* threads and the events that change the View                             *)
(***************************************************************************)
\* sizes of the window: each side a multiple of PIXEL_DIVISION, and not
PoolScreens == { PoolScreen, << 2 * PixelDivision + 1, 2 * PixelDivision + 1 >> }

PoolInit == MainInit /\ pool \in { NewPool(s) : s \in PoolScreens }

PoolStep(after) == pool' = after /\ UNCHANGED << mainVars, theView, lastCall, calls >>

\* a handler has changed the View: view.isDirty(true)
PoolViewChange ==
    /\ pool.open /\ pool.changes > 0
    /\ PoolStep([pool EXCEPT !.dirty = TRUE, !.changes = pool.changes - 1])

\* sf::Event::Closed: window.close()
PoolClose ==
    /\ pool.open
    /\ PoolStep([pool EXCEPT !.open = FALSE])

\* while (window->isOpen()), then if (view.isDirty())
PoolLoop ==
    /\ pool.pc = "loop"
    /\ PoolStep([pool EXCEPT !.pc = IF ~pool.open THEN "cleanup"
                                    ELSE IF pool.dirty THEN "clearDirty"
                                    ELSE "display"])

\* view.isDirty(false)
PoolClearDirty ==
    /\ pool.pc = "clearDirty"
    /\ PoolStep([pool EXCEPT !.dirty = FALSE, !.pc = "relaunch"])

\* the rest of the dirty branch: terminate() every thread,
\* completedThreads = 0, the rough draw, pixels[i] = 0, launch() every thread
PoolRelaunch ==
    /\ pool.pc = "relaunch"
    /\ PoolStep([pool EXCEPT
                    !.threads = [t \in Threads |-> [ph |-> "render", read |-> 0]],
                    !.completedThreads = 0,
                    !.pixels = [k \in DOMAIN pool.pixels |-> 0],
                    !.promotions = 0,
                    !.pc = "display"])

\* if (completedThreads == THREAD_POOL_SIZE): detailedDraw, the copy to
\* goodPixels, displayedView = view, completedThreads = ALREADY_DISPLAYED;
\* else the partial frame is drawn
PoolDisplay ==
    /\ pool.pc = "display"
    /\ PoolStep(IF pool.completedThreads = THREAD_POOL_SIZE
                THEN [pool EXCEPT !.completedThreads = ALREADY_DISPLAYED,
                                  !.promotions = IF pool.promotions < 2
                                                 THEN pool.promotions + 1 ELSE 2,
                                  !.pc = "loop"]
                ELSE [pool EXCEPT !.pc = "loop"])

\* after the loop: terminate() and delete every thread, delete[] pixels
PoolCleanup ==
    /\ pool.pc = "cleanup"
    /\ PoolStep([pool EXCEPT !.threads = [t \in Threads |-> [ph |-> "off", read |-> 0]],
                             !.pixels = [k \in DOMAIN pool.pixels |-> 0],
                             !.pc = "off"])

\* renderPixels of thread t: the two loops over its rectangle
PoolRender(t) ==
    /\ pool.threads[t].ph = "render"
    /\ LET at == WrittenAt(TileRect(t, pool.screen), pool.screen[1])
           inside == { 4 * k : k \in DOMAIN pool.pixels }
       IN  PoolStep([pool EXCEPT
                       !.pixels = [k \in DOMAIN pool.pixels |->
                                      IF 4 * k \in at /\ pool.pixels[k] < 2
                                      THEN pool.pixels[k] + 1 ELSE pool.pixels[k]],
                       !.stray = pool.stray \/ ~(at \subseteq inside),
                       !.threads[t].ph = "load"])

\* (*completedPtr)++ on a plain int shared by the threads: the read
PoolLoad(t) ==
    /\ pool.threads[t].ph = "load"
    /\ PoolStep([pool EXCEPT !.threads[t] = [ph |-> "store", read |-> pool.completedThreads]])

\* (*completedPtr)++: the write of the value read plus one; the thread ends
PoolStore(t) ==
    /\ pool.threads[t].ph = "store"
    /\ PoolStep([pool EXCEPT !.completedThreads = pool.threads[t].read + 1,
                             !.threads[t] = [ph |-> "done", read |-> 0]])

PoolNext ==
    \/ PoolViewChange \/ PoolClose
    \/ PoolLoop \/ PoolClearDirty \/ PoolRelaunch \/ PoolDisplay \/ PoolCleanup
    \/ \E t \in Threads : PoolRender(t) \/ PoolLoad(t) \/ PoolStore(t)

PoolSpec == PoolInit /\ [][PoolNext]_vars

(***************************************************************************)
(* Properties                                                              *)
(***************************************************************************)
IsPrefix(s, t) == Len(s) <= Len(t) /\ \A i \in 1..Len(s) : s[i] = t[i]
InLog(op) == \E i \in 1..Len(tickLog) : tickLog[i] = op
Written(buffer) == { i \in 1..Len(buffer) : buffer[i].a = 255 }

\* C1: at most one render pass writes m_renderingPixels: from the return of
\* the wait in the drawing thread's cancelRendering up to the launch of the
\* next pass no render pass is running (the cancelled pass has stopped and
\* writes no more), and a pass is launched only when none is running.
C1_SingleWriter ==
    /\ drawPc \in { "cancelClear", "rough", "setRendering", "launch" } => ~running
    /\ InLog("cancel") /\ ~InLog("launch") => ~PassWriting

\* C1 witness: the dirty branch has cancelled a pass that was cut short and is
\* about to launch the next one.
C1_Witness == drawPc = "launch" /\ passCut /\ ~running /\ InLog("cancel")

\* C2 (as claimed): no pixel written by a pass that was cut short is ever
\* copied into m_completedPixels.
C2_NoCutPixelPromoted == ~completedCut

\* the promotion is safe: a pass is promoted at most once, and at the
\* promotion the copy in m_completedPixels equals m_renderingPixels and no
\* pass is writing
PromotedAtMostOnce ==
    /\ promotions <= 1
    /\ drawPc = "promote" => ~running
    /\ drawPc = "setDisplayed" => m_completedPixels = m_renderingPixels /\ ~running
    /\ m_renderingState = "Displayed" /\ promotions = 1 /\ ~InLog("zero")
          /\ drawPc \notin { "alloc", "free", "off" }
          => m_completedPixels = m_renderingPixels

\* the input thread is between two events and the drawing loop is running
\* on a clean View, e events are still to come
Quiet(e) ==
    /\ events = e /\ inputTodo = << >> /\ ~m_renderingView.dirty
    /\ windowOpen /\ ~m_resizing /\ drawPc \notin { "off", "free" }

\* C3: when a pass has completed and no other input event arrives, the
\* controller reaches Displayed; a pass is promoted at most once, and at the
\* promotion m_completedPixels equals m_renderingPixels.
C3_PromotedOnce ==
    /\ []PromotedAtMostOnce
    /\ \A e \in 0..MaxEvents :
          (m_renderingState = "Completed" /\ Quiet(e))
              ~> (m_renderingState = "Displayed" \/ events < e)

\* C3 witness: a pass that ran to the end has been promoted, once.
C3_Witness ==
    /\ m_renderingState = "Displayed" /\ promotions = 1 /\ ~passCut
    /\ FullFrame /\ m_completedPixels = m_renderingPixels

\* C4 (as claimed): after a promotion m_completedView is the View the pixels
\* in m_completedPixels were computed from (stated for a frame whose pixels
\* were all computed from the View of the launch).
C4_CompletedViewMatches ==
    m_renderingState = "Displayed"
        /\ (\A i \in Written(m_completedPixels) :
               m_completedPixels[i].v = launchView /\ m_completedPixels[i].m = launchView[2])
        => \A i \in Written(m_completedPixels) :
               m_completedPixels[i].v = ViewKey(m_completedView)

\* C5 (as claimed): every pixel a pass has written was computed from the
\* View as it was when the pass was launched.
C5_PixelsFromLaunchView ==
    \A i \in Written(m_renderingPixels) :
        m_renderingPixels[i].v = launchView /\ m_renderingPixels[i].m = launchView[2]

\* C6 (as claimed): the drawing thread is never about to read
\* m_renderingPixels (detailedDraw, promotion copy) while a pass is writing it.
C6_NoReadWhileWriting ==
    ~(drawPc \in { "detailed", "promote" } /\ PassWriting)

\* C7 (as claimed): whenever the state is Completed the pass ran every row
\* and m_renderingPixels holds a fully written frame.
C7_CompletedIsFull ==
    m_renderingState = "Completed" => ~passCut /\ FullFrame

\* C8 (as claimed): whenever the state is Displayed after a pass that ran
\* every row, the last detailed draw read the frame after the pass had written
\* every pixel.
C8_DisplayedWasShown ==
    m_renderingState = "Displayed" /\ ~passCut => lastDetailedFull

\* the order of the dirty branch as the claim C9 states it
ClaimedOrder == << "clearDirty", "cancel", "rough", "zero", "launch", "setRendering" >>

\* the order of the dirty branch: Rendering is assigned before the launch
DirtyBranchOrder == << "clearDirty", "cancel", "rough", "zero", "setRendering", "launch" >>

\* C9 (as claimed): the dirty branch clears dirty, cancels, rough draws,
\* zeroes the buffer, launches the pass and then assigns Rendering.
C9_ClaimedOrder == IsPrefix(tickLog, ClaimedOrder)

\* C9 (amended): the dirty branch clears dirty, cancels and waits until the
\* pass has stopped, rough draws, zeroes the buffer, assigns Rendering and
\* then launches the pass; the buffer is all zero when the pass is launched.
C9_DirtyBranch ==
    /\ IsPrefix(tickLog, DirtyBranchOrder)
    /\ InLog("cancel") /\ ~InLog("launch") => ~running
    /\ drawPc \in { "setRendering", "launch" } => m_renderingPixels = ClearedBuffer
    /\ drawPc = "launch" => m_renderingState = "Rendering"

\* C9 witness: a dirty tick has run its whole branch and the pass it
\* launched has not written yet.
C9_Witness ==
    /\ tickLog = DirtyBranchOrder
    /\ running /\ m_renderingPixels = ClearedBuffer /\ m_renderingState = "Rendering"

\* the changes of m_renderingState that the program makes
StateStep ==
    \/ /\ m_renderingState = "Rendering" /\ m_renderingState' = "Completed"
       /\ running /\ ~running'
    \/ /\ m_renderingState = "Completed" /\ m_renderingState' = "Displayed"
       /\ drawPc = "setDisplayed"
    \/ /\ m_renderingState' = "Rendering"
       /\ drawPc = "setRendering" /\ ~running /\ ~InLog("launch")

\* C10: m_renderingState changes only Rendering -> Completed at the end of a
\* pass, Completed -> Displayed at the promotion and any -> Rendering in the
\* dirty branch before the pass is launched, so that the Completed of the
\* launched pass is never overwritten by that assignment.
C10_StateChanges == [][m_renderingState' # m_renderingState => StateStep]_vars

\* C10 witness: after a promotion a new pass is running in state Rendering.
C10_Witness ==
    /\ m_renderingState = "Rendering" /\ running
    /\ Written(m_completedPixels) # {}

\* the frame render() writes for a View when nothing disturbs the pass
FrameOf(view) ==
    [i \in 1..NPixels |-> [a |-> 255, v |-> ViewKey(view), m |-> view.zoom]]

\* the input thread is between two events, e events are still to come, and
\* neither a close nor a resize is under way
InputStopped(e) == events = e /\ inputTodo = << >> /\ windowOpen /\ ~m_resizing

\* the controller has come to rest on the current View, up to the viewport
\* rectangle stored in m_completedView
SettledUpToViewport ==
    /\ m_renderingState = "Displayed" /\ ~m_renderingView.dirty
    /\ ViewKey(m_completedView) = ViewKey(m_renderingView)
    /\ m_completedPixels = FrameOf(m_renderingView)

\* the controller has come to rest on the current View
Settled == SettledUpToViewport /\ m_completedView = Snapshot(m_renderingView)

\* C11 (as claimed): when the input thread stops mutating the View, the
\* controller eventually reaches Displayed with dirty = false, m_completedView
\* equal to the current View and m_completedPixels holding the frame of that
\* View.
C11_Settles ==
    \A e \in 0..MaxEvents : InputStopped(e) ~> (Settled \/ events < e)

\* what holds of C11: the same with m_completedView compared by centre and
\* scale only, and the rest lasts while no event arrives and no tick is dirty
C11_SettlesUpToViewport ==
    /\ \A e \in 0..MaxEvents :
          InputStopped(e) ~> (SettledUpToViewport \/ events < e)
    /\ [][SettledUpToViewport /\ tickLog = << >> /\ inputTodo = << >>
             /\ UNCHANGED inputVars
          => SettledUpToViewport']_vars

\* unit u starts a row: it passes the check of m_cancelling
StartsRow(u) == units[u].ph = "check" /\ units'[u].ph = "coord"

\* C12 (as claimed): once m_cancelling is set it stays true until the pass has
\* stopped, and no unit starts a further row in a pass that a unit has left
\* by the break, whichever threads call cancelRendering.
C12_FlagHeldUntilStopped ==
    [][/\ m_cancelling /\ ~m_cancelling' => ~running
       /\ \A u \in Units : StartsRow(u) => ~passCut]_vars

\* C13 (as claimed): when handleResize changes m_width, m_height and
\* m_bufferSizeBytes the drawing loop has ended and no render pass is running,
\* and no pass runs while the drawing thread replaces the buffers.
C13_ResizeQuiesced ==
    /\ AtOp("resize") => drawPc = "off" /\ ~running
    /\ drawPc = "alloc" => ~running

\* the layers of a frame and its presentation, in the order of draw()
LayerOrder == << "rough", "detailed", "outline", "display" >>
LayerPos(l) == CHOOSE k \in 1..Len(LayerOrder) : LayerOrder[k] = l
Drawn(log, l) == \E i \in 1..Len(log) : log[i] = l

\* the drawing thread executes the statement at pc
DrawStep(pc) == drawPc = pc /\ drawPc' # pc

\* C14: within a tick the layers are drawn in the order rough composite,
\* detailed draw, zoom-box outline, each at most once; the rough composite is
\* drawn iff the state is Rendering or the zoom box is shown, the detailed
\* draw iff the state is not Displayed, the outline iff the zoom box is shown
\* (each condition as the tick reads it), the outline last.
C14_Layers ==
    /\ [](\A i, j \in 1..Len(layers) :
             i < j => LayerPos(layers[i]) < LayerPos(layers[j]))
    /\ [][/\ DrawStep("roughCheck") =>
               (Drawn(layers', "rough")
                  <=> m_renderingState = "Rendering" \/ m_renderingView.zoomBoxIsShown)
          /\ DrawStep("detailedCheck") =>
               (drawPc' = "detailed" <=> m_renderingState # "Displayed")
          /\ DrawStep("detailed") => layers' = Append(layers, "detailed")
          /\ DrawStep("outline") =>
               (Drawn(layers', "outline") <=> m_renderingView.zoomBoxIsShown)]_vars

\* C14 witness: a tick has drawn the three layers and presented them.
C14_Witness == layers = LayerOrder /\ drawPc = "loop"

\* C15: in a tick where the View was not dirty, in which nothing has been
\* drawn so far and the state is Displayed and the zoom box is not shown, the
\* next statement of the drawing thread draws nothing and does not present.
C15_IdleTick ==
    [][tickLog = << >> /\ layers = << >> /\ m_renderingState = "Displayed"
          /\ ~m_renderingView.zoomBoxIsShown
          /\ (DrawStep("roughCheck") \/ DrawStep("detailedCheck") \/ DrawStep("outline"))
       => layers' = << >> /\ drawPc' # "detailed"]_vars

\* C15 witness: a tick on a displayed frame has ended without drawing or
\* presenting anything.
C15_Witness ==
    /\ drawPc = "loop" /\ tickLog = << >> /\ layers = << >>
    /\ m_renderingState = "Displayed" /\ ~m_renderingView.dirty
    /\ FullFrame /\ m_completedPixels = m_renderingPixels

ScaleIsPowerOfZoom == IsPowOf(theView.m_scale, theView.m_zoom)

\* C16 (as claimed): after any sequence of calls of the View's mutators
\* m_scale = 2^m_zoom, and zoomBy(dz) has set m_zoom to m_zoom + dz and
\* m_scale to 2^(m_zoom + dz), whether or not the new zoom is an integer.
C16_ScaleIsPowerOfZoom ==
    /\ ScaleIsPowerOfZoom
    /\ lastCall.op = "zoomBy"
          => \E dhalf \in WheelDeltas :
                /\ theView.m_zoom = ZoomPlus(lastCall.before.m_zoom, dhalf)
                /\ IsPowOf(theView.m_scale, ZoomPlus(lastCall.before.m_zoom, dhalf))

\* C17 (as claimed): m_scale > 0 in every state a sequence of calls of the
\* View's members leaves a constructed View in.
C17_ScalePositive == Positive(theView.m_scale)

\* the rectangle the data model derives from m_centre, m_scale, m_aspectRatio
DerivedViewport(v) ==
    [left |-> Sub(v.m_centre[1], Mul(v.m_scale, v.m_aspectRatio)),
     top |-> Sub(v.m_centre[2], v.m_scale),
     width |-> Mul(Real(2), Mul(v.m_scale, v.m_aspectRatio)),
     height |-> Mul(Real(2), v.m_scale)]

\* the members that change m_centre, m_scale or the screen size
Mutators == { "moveBy", "moveTo", "zoomTo", "zoomBy", "setScale", "setViewport",
              "resizeScreen", "zoomBoxEnd" }

\* C18 (as claimed): when a mutator has returned, the cached m_rect is
\* [centre - (scale * aspect, scale), 2 * scale * aspect, 2 * scale] for the
\* centre, scale and aspect ratio the View has then.
C18_ViewportDerived ==
    lastCall.op \in Mutators => theView.m_rect = DerivedViewport(theView)

\* the box zoomBoxEnd has worked on has a height: h > 0
BoxHasHeight(v) == v.m_zoomBoxEndCorner[2] # v.m_zoomBoxStartCorner[2]

\* C19: when moveBy, moveTo, zoomTo, zoomBy, setScale, setViewport or
\* resizeScreen has returned, and when zoomBoxEnd has returned for a box
\* with a height, m_dirty is true; a const member (getViewport, getCentre,
\* getScale, getZoom, complexAtPixel, pixelAtComplex, isDirty()) leaves every
\* field of the View as it was.
C19_MutatorsMarkReadersKeep ==
    /\ lastCall.op \in Mutators \ { "zoomBoxEnd" } => theView.m_dirty
    /\ lastCall.op = "zoomBoxEnd" /\ BoxHasHeight(theView) => theView.m_dirty
    /\ lastCall.op \in Readers => theView = lastCall.before

\* C19 witness: zoomBoxEnd on a box with a height has returned on a View
\* that was clean, and has moved it.
C19_Witness ==
    /\ lastCall.op = "zoomBoxEnd" /\ BoxHasHeight(theView)
    /\ ~lastCall.before.m_dirty /\ theView.m_dirty
    /\ theView.m_centre # lastCall.before.m_centre

\* the difference of two points of the plane
Minus(p, q) == << Sub(p[1], q[1]), Sub(p[2], q[2]) >>

Resized(b, v, w, h) ==
    /\ v.m_scale = Div(Mul(b.m_scale, Real(h)), Real(b.m_screenSize[2]))
    /\ v.m_aspectRatio = Frac(w, h)
    /\ v.m_screenSize = << w, h >>
    /\ v.m_centre = b.m_centre

\* the pixel (w / 2, h / 2) of the screen, in the arithmetic of int
CentrePixel(v) == << IntDiv(v.m_screenSize[1], 2), IntDiv(v.m_screenSize[2], 2) >>

\* C22 (as claimed): resizeScreen(w, h) has multiplied the scale by
\* h / previousHeight, set the aspect ratio to w / h and kept the centre, and
\* complexAtPixel(w / 2, h / 2) = centre for every size of the screen.
C22_CentrePixelIsCentre ==
    lastCall.op = "resizeScreen" =>
        /\ Resized(lastCall.before, theView, lastCall.args[1], lastCall.args[2])
        /\ View_complexAtPixel(theView, CentrePixel(theView)[1], CentrePixel(theView)[2])
              = theView.m_centre

\* C22 (amended): resizeScreen(w, h) has multiplied the scale by
\* h / previousHeight, set the aspect ratio to w / h and kept the centre;
\* complexAtPixel(w / 2, h / 2) = centre where w and h are even, and on an
\* axis of odd size the pixel (w / 2, h / 2) shows the point scale / h before
\* the centre (half a pixel).
C22_ResizeKeepsCentre ==
    lastCall.op = "resizeScreen" =>
        LET w == lastCall.args[1]
            h == lastCall.args[2]
            at == View_complexAtPixel(theView, CentrePixel(theView)[1], CentrePixel(theView)[2])
            perPixel == Div(theView.m_scale, Real(h))
        IN  /\ Resized(lastCall.before, theView, w, h)
            /\ at[1] = Sub(theView.m_centre[1], Mul(perPixel, Real(w % 2)))
            /\ at[2] = Sub(theView.m_centre[2], Mul(perPixel, Real(h % 2)))
            /\ w % 2 = 0 /\ h % 2 = 0 => at = theView.m_centre

\* C22 witness: a second resizeScreen, to a screen of even width and height
\* of another height than before, has returned.
C22_Witness ==
    /\ lastCall.op = "resizeScreen"
    /\ lastCall.before.m_screenSize # ConstructedView.m_screenSize
    /\ theView.m_screenSize[1] % 2 = 0 /\ theView.m_screenSize[2] % 2 = 0
    /\ theView.m_scale # lastCall.before.m_scale

\* the pixels of the screen that complexAtPixel maps to the point z
PixelsShowing(v, z) ==
    { q \in ScreenPixels(v) : View_complexAtPixel(v, q[1], q[2]) = z }

\* C23 (as claimed): in every View state and for every pixel (x, y) of the
\* screen, pixelAtComplex(complexAtPixel(x, y)) differs from (x, y) by at
\* most 1 in each coordinate.
C23_RoundTrip ==
    lastCall.op = "pixelAtComplex" =>
        \A q \in PixelsShowing(theView, lastCall.args) :
            /\ q[1] - 1 <= lastCall.ret[1] /\ lastCall.ret[1] <= q[1] + 1
            /\ q[2] - 1 <= lastCall.ret[2] /\ lastCall.ret[2] <= q[2] + 1

\* centre - (scale * aspect, scale)
TopLeft(v) ==
    << Sub(v.m_centre[1], Mul(v.m_scale, v.m_aspectRatio)), Sub(v.m_centre[2], v.m_scale) >>

\* View(-0.5, 0, 1, 800, 600)
View800x600 == View_View(<< -1, 2 >>, Real(0), Zoom(1), 800, 600)

\* C24 (as claimed): for any View complexAtPixel(width / 2, height / 2) is
\* the centre and complexAtPixel(0, 0) is centre - (scale * aspect, scale).
C24_CentreAndCorner ==
    lastCall.op = "complexAtPixel" =>
        /\ lastCall.args = CentrePixel(theView) => lastCall.ret = theView.m_centre
        /\ lastCall.args = << 0, 0 >> => lastCall.ret = TopLeft(theView)

\* C24 (amended): for any View complexAtPixel(0, 0) is
\* centre - (scale * aspect, scale); complexAtPixel(width / 2, height / 2) is
\* the centre where width and height are even, and lies scale / height
\* before the centre on an axis of odd size; for centre (-0.5, 0), zoom 1 and
\* a screen of 800 x 600 the two points are (-0.5, 0) and
\* (-0.5 - 2 * 800 / 600, -2).
C24_CornerAndEvenCentre ==
    /\ lastCall.op = "complexAtPixel" =>
          LET w == theView.m_screenSize[1]
              h == theView.m_screenSize[2]
              perPixel == Div(theView.m_scale, Real(h))
          IN  /\ lastCall.args = << 0, 0 >> => lastCall.ret = TopLeft(theView)
              /\ lastCall.args = CentrePixel(theView) =>
                    /\ lastCall.ret[1] = Sub(theView.m_centre[1], Mul(perPixel, Real(w % 2)))
                    /\ lastCall.ret[2] = Sub(theView.m_centre[2], Mul(perPixel, Real(h % 2)))
                    /\ w % 2 = 0 /\ h % 2 = 0 => lastCall.ret = theView.m_centre
    /\ View_complexAtPixel(View800x600, 400, 300) = << << -1, 2 >>, Real(0) >>
    /\ View_complexAtPixel(View800x600, 0, 0) = << << -19, 6 >>, Real(-2) >>

\* C24 witness: complexAtPixel of the centre pixel of a screen of even width
\* and height has returned the centre of a View that has been moved and
\* scaled.
C24_Witness ==
    /\ lastCall.op = "complexAtPixel" /\ lastCall.args = CentrePixel(theView)
    /\ theView.m_screenSize[1] % 2 = 0 /\ theView.m_screenSize[2] % 2 = 0
    /\ lastCall.ret = theView.m_centre
    /\ theView.m_centre # ConstructedView.m_centre
    /\ theView.m_scale \notin { Real(0), ConstructedView.m_scale }

\* centre, scale, zoom, viewport and dirty of a View
Navigation(v) == << v.m_centre, v.m_scale, v.m_zoom, v.m_rect, v.m_dirty >>

\* C25 (as claimed): zoomBoxCancel leaves the box inactive and the View as
\* it was; after begin, continue*, cancel and the release of the left button
\* (zoomBoxEnd), centre, scale, zoom, viewport and dirty are those the View
\* had before begin.
C25_CancelledBoxNoChange ==
    /\ lastCall.op = "zoomBoxCancel" =>
          /\ ~theView.m_zoomBoxIsShown
          /\ Navigation(theView) = Navigation(lastCall.before)
    /\ lastCall.gesture.phase = "releasedAfterCancel" =>
          Navigation(theView) = Navigation(lastCall.gesture.saved)

\* C26: when zoomBoxEnd has returned and the box it has worked on has no
\* height in pixels (the start corner and the end corner are one pixel, or
\* the locked height is less than a pixel), centre, scale, zoom, viewport
\* and dirty are those before the call and the box is not active.
C26_FlatBoxNoChange ==
    lastCall.op = "zoomBoxEnd" /\ ~BoxHasHeight(theView) =>
        /\ Navigation(theView) = Navigation(lastCall.before)
        /\ ~theView.m_zoomBoxIsShown

\* C26 witness: zoomBoxEnd has returned on an active box, at a pixel that
\* is not the start corner, and the locked box had no height.
C26_Witness ==
    /\ lastCall.op = "zoomBoxEnd"
    /\ lastCall.before.m_zoomBoxIsShown
    /\ lastCall.args # lastCall.before.m_zoomBoxStartCorner
    /\ ~BoxHasHeight(theView)
    /\ ~theView.m_zoomBoxIsShown

\* the pixel half way between the corners of the box of a View, as
\* (start + end) / 2 on ints gives it
BoxMidpoint(v) ==
    << IntDiv(v.m_zoomBoxStartCorner[1] + v.m_zoomBoxEndCorner[1], 2),
       IntDiv(v.m_zoomBoxStartCorner[2] + v.m_zoomBoxEndCorner[2], 2) >>

\* the height of the box of a View in pixels
BoxHeight(v) == Abs(v.m_zoomBoxEndCorner[2] - v.m_zoomBoxStartCorner[2])

\* C27: when zoomBoxEnd(x, y) has returned on a box that was active and
\* the locked box has a height of h pixels, h not 0, the centre is the
\* complex number that the View before the call, with its scale and its
\* centre, shows at the pixel half way between the start corner and the
\* locked end corner; the scale is the scale before the call times h over
\* the height of the screen; the View is dirty and the box is not active.
C27_BoxZoom ==
    lastCall.op = "zoomBoxEnd" /\ lastCall.before.m_zoomBoxIsShown /\ BoxHasHeight(theView) =>
        LET b == lastCall.before
            locked == View_zoomBoxContinue(b, lastCall.args[1], lastCall.args[2])
            mid == BoxMidpoint(locked)
        IN  /\ theView.m_zoomBoxEndCorner = locked.m_zoomBoxEndCorner
            /\ theView.m_centre = View_complexAtPixel(b, mid[1], mid[2])
            /\ theView.m_scale = Div(Mul(b.m_scale, Real(BoxHeight(locked))),
                                     Real(b.m_screenSize[2]))
            /\ theView.m_dirty
            /\ ~theView.m_zoomBoxIsShown

\* C27 witness: zoomBoxEnd has returned on an active box with a height, on
\* a View that was clean, and has changed both the centre and the scale.
C27_Witness ==
    /\ lastCall.op = "zoomBoxEnd"
    /\ lastCall.before.m_zoomBoxIsShown
    /\ ~lastCall.before.m_dirty
    /\ BoxHasHeight(theView)
    /\ theView.m_centre # lastCall.before.m_centre
    /\ theView.m_scale # lastCall.before.m_scale

\* zoomBoxContinue(x, y) has returned on a box that was active, at a pixel
\* that is not the start corner
Dragged ==
    /\ lastCall.op = "zoomBoxContinue"
    /\ lastCall.before.m_zoomBoxIsShown
    /\ lastCall.args # lastCall.before.m_zoomBoxStartCorner

\* the box has the View's aspect ratio: the size of the shape, which is
\* (|w|, |h|), is not 0 and its width is the aspect ratio times its height,
\* and each side of the box in pixels is the whole part of that size
BoxIsLocked(v) ==
    /\ Positive(v.m_zoomBoxShape.size[1]) /\ Positive(v.m_zoomBoxShape.size[2])
    /\ v.m_zoomBoxShape.size[1] = Mul(v.m_aspectRatio, v.m_zoomBoxShape.size[2])
    /\ Abs(v.m_zoomBoxEndCorner[1] - v.m_zoomBoxStartCorner[1])
          = Truncate(v.m_zoomBoxShape.size[1])
    /\ Abs(v.m_zoomBoxEndCorner[2] - v.m_zoomBoxStartCorner[2])
          = Truncate(v.m_zoomBoxShape.size[2])

\* the shape is at the corner of the box with the least x and the least y
ShapeAtMinimumCorner(v) ==
    v.m_zoomBoxShape.position =
        << Real(FMin(v.m_zoomBoxStartCorner[1], v.m_zoomBoxEndCorner[1])),
           Real(FMin(v.m_zoomBoxStartCorner[2], v.m_zoomBoxEndCorner[2])) >>

\* a side of the box has the sign of the drag d along its axis, 0 for no
\* drag: extent is its length, pixels its signed length in pixels
SignOfDrag(d, extent, pixels) ==
    /\ d > 0 => Positive(extent) /\ pixels >= 0
    /\ d < 0 => Positive(extent) /\ pixels <= 0
    /\ d = 0 => extent = Real(0) /\ pixels = 0

\* a side of the box points the way of the drag d along its axis, and to
\* the right or down when the drag has no part along that axis
DirectionOfDrag(d, pixels) ==
    /\ d >= 0 => pixels >= 0
    /\ d < 0 => pixels <= 0

\* C28 (as claimed): when zoomBoxContinue(x, y) has returned on an active
\* box, (x, y) not the start corner, the box has the aspect ratio of the
\* View up to the rounding to pixels, its width has the sign of x - startX
\* and its height the sign of y - startY, and the shape is at the minimum
\* corner with the size (|width|, |height|).
C28_LockedBoxSignOfDrag ==
    Dragged =>
        /\ BoxIsLocked(theView)
        /\ ShapeAtMinimumCorner(theView)
        /\ SignOfDrag(lastCall.args[1] - theView.m_zoomBoxStartCorner[1],
                      theView.m_zoomBoxShape.size[1],
                      theView.m_zoomBoxEndCorner[1] - theView.m_zoomBoxStartCorner[1])
        /\ SignOfDrag(lastCall.args[2] - theView.m_zoomBoxStartCorner[2],
                      theView.m_zoomBoxShape.size[2],
                      theView.m_zoomBoxEndCorner[2] - theView.m_zoomBoxStartCorner[2])

\* C28 (amended): as above, but a side of the box has the sign of the drag
\* only when the drag has a part along its axis; when x = startX the width
\* is positive, and when y = startY the height is positive.
C28_LockedBoxDirectionOfDrag ==
    Dragged =>
        /\ BoxIsLocked(theView)
        /\ ShapeAtMinimumCorner(theView)
        /\ DirectionOfDrag(lastCall.args[1] - theView.m_zoomBoxStartCorner[1],
                           theView.m_zoomBoxEndCorner[1] - theView.m_zoomBoxStartCorner[1])
        /\ DirectionOfDrag(lastCall.args[2] - theView.m_zoomBoxStartCorner[2],
                           theView.m_zoomBoxEndCorner[2] - theView.m_zoomBoxStartCorner[2])

\* C28 witness: a drag up and to the left has been locked to a box whose
\* end corner is not the pixel of the mouse.
C28_Witness ==
    /\ Dragged
    /\ lastCall.args[1] < theView.m_zoomBoxStartCorner[1]
    /\ lastCall.args[2] < theView.m_zoomBoxStartCorner[2]
    /\ theView.m_zoomBoxEndCorner # lastCall.args
    /\ theView.m_zoomBoxEndCorner[1] < theView.m_zoomBoxStartCorner[1]
    /\ theView.m_zoomBoxEndCorner[2] < theView.m_zoomBoxStartCorner[2]

\* C29: zoomBoxBegin and zoomBoxContinue leave centre, scale, zoom,
\* viewport and dirty as they were, and also the size of the screen and the
\* aspect ratio; zoomBoxContinue on a box that is not active leaves every
\* field of the View as it was.
C29_BoxStateOnly ==
    /\ lastCall.op \in { "zoomBoxBegin", "zoomBoxContinue" } =>
          /\ Navigation(theView) = Navigation(lastCall.before)
          /\ theView.m_screenSize = lastCall.before.m_screenSize
          /\ theView.m_aspectRatio = lastCall.before.m_aspectRatio
    /\ lastCall.op = "zoomBoxContinue" /\ ~lastCall.before.m_zoomBoxIsShown =>
          theView = lastCall.before

\* C29 witness: zoomBoxBegin, then zoomBoxContinue, have changed the box
\* of a View that was clean, and it is still clean.
C29_Witness ==
    /\ lastCall.op = "zoomBoxContinue"
    /\ lastCall.before.m_zoomBoxIsShown
    /\ theView.m_zoomBoxEndCorner # lastCall.before.m_zoomBoxEndCorner
    /\ theView.m_zoomBoxShape # lastCall.before.m_zoomBoxShape
    /\ ~theView.m_dirty

\* C30 (as claimed): mandelbrot counts to 120 - 10 * floor(zoom) of the
\* View, and to 1 where that is less than 1, at every finite zoom.
C30_MaxIterationsFloorClamped ==
    lastCall.op = "mandelbrot" /\ Finite(theView.m_zoom) =>
        LET wanted == 120 - 10 * ZoomFloor(theView.m_zoom)
        IN  lastCall.ret.maxIterations = (IF wanted < 1 THEN 1 ELSE wanted)

\* z^2 + z0 for whole numbers
Squared(z, z0) == << z[1] * z[1] - z[2] * z[2] + z0[1], 2 * z[1] * z[2] + z0[2] >>

\* the first n for which the orbit of z0 is outside the threshold after
\* n + 1 updates, -1 when it never is: an orbit that stays inside goes
\* through finitely many whole numbers and comes back to one of them
RECURSIVE EscapeFrom(_, _, _, _)
EscapeFrom(z, z0, n, seen) ==
    LET next == Squared(z, z0)
    IN  IF next[1] * next[1] + next[2] * next[2] > 16 THEN n
        ELSE IF next \in seen THEN -1
        ELSE EscapeFrom(next, z0, n + 1, seen \cup { next })

EscapeStep(z0) == EscapeFrom(z0, z0, 0, { z0 })

\* C31: when mandelbrot(z0) has counted to a positive MAX_ITERATIONS it
\* has returned n / MAX_ITERATIONS for the first n below MAX_ITERATIONS at
\* which |z|^2 > 16 after the update z <- z^2 + z0 (z = z0 at the start),
\* and 1 when there is no such n; the value is in [0, 1], it is 1 only when
\* the orbit has not left, and it is 1 for z0 = 0.
C31_EscapeRatio ==
    lastCall.op = "mandelbrot" /\ lastCall.ret.maxIterations > 0 =>
        LET max == lastCall.ret.maxIterations
            n == EscapeStep(lastCall.args)
            escaped == n >= 0 /\ n < max
            value == lastCall.ret.value
        IN  /\ value = (IF escaped THEN Frac(n, max) ELSE Real(1))
            /\ ~Less(value, Real(0)) /\ ~Less(Real(1), value)
            /\ value = Real(1) => ~escaped
            /\ lastCall.args = << 0, 0 >> => value = Real(1)

\* C31 witness: mandelbrot has returned n / MAX_ITERATIONS for an orbit
\* that left at the third pass of the loop.
C31_Witness ==
    /\ lastCall.op = "mandelbrot"
    /\ lastCall.ret.maxIterations > 0
    /\ EscapeStep(lastCall.args) = 2
    /\ lastCall.ret.value = Frac(2, lastCall.ret.maxIterations)

\* the segment of a hue of [0, 360]: k with 60 k <= h < 60 (k + 1), and
\* the last one for h = 360
SegmentOf(h) == IF h = Real(360) THEN 5 ELSE Truncate(Div(h, Real(60)))

\* x = 255 (1 - |((h / 60) mod 2) - 1|) as a byte
ThirdChannel(h) ==
    LET sixth == Div(h, Real(60))
        mod2 == Sub(sixth, Real(2 * (Truncate(sixth) \div 2)))
    IN  Truncate(Mul(Real(255), Sub(Real(1), FAbs(Sub(mod2, Real(1))))))

\* the colour of segment k with third channel x
SegmentColour(k, x) ==
    CASE k = 0 -> << 255, x, 0, 255 >>
      [] k = 1 -> << x, 255, 0, 255 >>
      [] k = 2 -> << 0, 255, x, 255 >>
      [] k = 3 -> << 0, x, 255, 255 >>
      [] k = 4 -> << x, 0, 255, 255 >>
      [] k = 5 -> << 255, 0, x, 255 >>

\* C33 (as claimed): hueToRGB(h), h in [0, 360], has returned the colour of
\* the segment k with 60 k <= h < 60 (k + 1), k = 5 for h = 360, with the
\* third channel x = 255 (1 - |((h / 60) mod 2) - 1|).
C33_SegmentsLastClosed ==
    lastCall.op = "hueToRGB" =>
        lastCall.ret = SegmentColour(SegmentOf(lastCall.args[1]), ThirdChannel(lastCall.args[1]))

\* unit u writes the pixel it is at
WritesPixel(u) == running /\ units[u].ph = "iter" /\ units'[u] # units[u]

\* C32 (as claimed): a render pass writes each pixel (x, y) once, at its
\* own place in m_renderingPixels (byte offset 4 * (y * width + x)), which
\* was cleared and now has alpha 0xFF; when a pass that no unit has left by
\* the break returns, every pixel of m_renderingPixels has been written.
C32_EveryPixelOnce ==
    [][/\ \A u \in Units :
             WritesPixel(u) =>
                 /\ m_renderingPixels # << >>
                 /\ m_renderingPixels[PixelIndex(units[u].x, units[u].y)].a = 0
                 /\ m_renderingPixels' =
                       [m_renderingPixels EXCEPT
                           ![PixelIndex(units[u].x, units[u].y)] =
                               m_renderingPixels'[PixelIndex(units[u].x, units[u].y)]]
                 /\ m_renderingPixels'[PixelIndex(units[u].x, units[u].y)].a = 255
       /\ running /\ ~running' /\ ~passCut => FullFrame']_vars

\* C34 (as claimed): while the pixel buffers are freed (after the delete[]
\* at the end of the drawing loop, up to the new[] of the next draw()) no
\* render pass is running, and no pass has written through a freed
\* m_renderingPixels.
C34_NoPassOnFreedBuffers ==
    /\ m_renderingPixels = << >> => ~running
    /\ ~uaf

\* the viewport rectangle of a View is the one updateViewport computes from
\* its own centre and scale
ViewportConsistent(view) == view.rect = << view.centre, view.zoom >>

\* C35 (as claimed): at every promotion the View copied into
\* m_completedView has a viewport rectangle that matches its own centre and
\* scale.
C35_CompletedViewConsistent ==
    [][DrawStep("setDisplayed") => ViewportConsistent(m_completedView')]_vars

\* every tile thread of the pass has finished
AllTilesFinished == \A t \in Threads : pool.threads[t].ph = "done"

\* C36 (as claimed): when every tile thread of a pass has finished,
\* completedThreads is THREAD_POOL_SIZE until the drawing loop has promoted
\* the frame, which it does once, and ALREADY_DISPLAYED from then on.
C36_EveryIncrementCounted ==
    AllTilesFinished =>
        \/ pool.completedThreads = THREAD_POOL_SIZE /\ pool.promotions = 0
        \/ pool.completedThreads = ALREADY_DISPLAYED /\ pool.promotions = 1

\* the pixels (x, y) inside the rectangle of thread t
TilePixels(t) ==
    LET r == TileRect(t, pool.screen)
    IN  { << x, y >> : x \in r.left..(r.left + r.width - 1),
                       y \in r.top..(r.top + r.height - 1) }

\* the tile threads that have run their renderPixels since the last launch
Rendered == { t \in Threads : pool.threads[t].ph \in { "load", "store", "done" } }

\* C39: the rectangles of the tile threads are pairwise disjoint and, when
\* width and height are multiples of PIXEL_DIVISION, cover every pixel of the
\* screen exactly once; renderPixels of a rectangle writes exactly the bytes
\* of the pixels inside it, each once, and nothing outside the buffer.
C39_TilesPartitionScreen ==
    LET W == pool.screen[1]
        H == pool.screen[2]
        screen == { << x, y >> : x \in 0..(W - 1), y \in 0..(H - 1) }
    IN  /\ \A t, u \in Threads : t # u => TilePixels(t) \cap TilePixels(u) = {}
        /\ (W % PixelDivision = 0 /\ H % PixelDivision = 0)
               => UNION { TilePixels(t) : t \in Threads } = screen
        /\ \A t \in Threads :
               /\ WrittenAt(TileRect(t, pool.screen), W)
                      = { 4 * (p[2] * W + p[1]) : p \in TilePixels(t) }
               /\ TilePixels(t) \subseteq screen
        /\ ~pool.stray
        /\ \A p \in screen :
               pool.pixels[p[2] * W + p[1]]
                   = Cardinality({ t \in Rendered : p \in TilePixels(t) })

\* every tile thread has finished on a screen whose sides are multiples of
\* PIXEL_DIVISION, and every pixel has been written once
C39_Witness ==
    /\ AllTilesFinished
    /\ pool.screen[1] % PixelDivision = 0 /\ pool.screen[2] % PixelDivision = 0
    /\ \A k \in DOMAIN pool.pixels : pool.pixels[k] = 1

\* C37 (as claimed): when setViewport(r) has returned, getViewport() is r;
\* and when r was the View's own getViewport(), m_centre, m_scale and m_zoom
\* are what they were before the call.
C37_SetViewportRoundTrip ==
    lastCall.op = "setViewport" =>
        /\ theView.m_rect = lastCall.args[1]
        /\ lastCall.args[1] = lastCall.before.m_rect =>
               /\ theView.m_centre = lastCall.before.m_centre
               /\ theView.m_scale = lastCall.before.m_scale
               /\ theView.m_zoom = lastCall.before.m_zoom

\* the drawing thread calls roughDraw()
RoughDrawn == DrawStep("rough") \/ (DrawStep("roughCheck") /\ RoughWanted)

\* roughDraw: the sprite is set to position (0, 0) and scale factor 1.
\* m_renderingView.pixelAtComplex of the corner of m_completedView's viewport
\* is (0, 0) when that viewport is the one updateViewport computes from the
\* centre and scale of m_renderingView; getScale() / getScale() is 1 when the
\* two scales are the same
RoughAtOrigin ==
    /\ m_completedView.rect = ViewKey(m_renderingView)
    /\ m_completedView.zoom = m_renderingView.zoom

\* C38 (as claimed): whenever roughDraw runs with m_completedView equal to
\* the current View, it places the completed frame at position (0, 0) with
\* scale factor 1.
C38_EqualViewsRoughAtOrigin ==
    [][RoughDrawn /\ Snapshot(m_renderingView) = m_completedView => RoughAtOrigin]_vars

\* the handler of a Closed event has been entered and has not closed the
\* window yet
ClosedEntered == \E i \in 1..Len(inputTodo) : inputTodo[i].op = "close"

\* run() has returned
RunReturned == AtOp("returned")

\* C40 (as claimed): after a Closed event run() eventually returns, and when
\* it has returned the window is closed, the drawing loop has ended and has
\* been joined, and no render pass is running.
C40_ClosedReturnsQuiesced ==
    /\ ClosedEntered ~> RunReturned
    /\ [](RunReturned => ~windowOpen /\ drawPc = "off" /\ ~running)

====
